---------------------------- MODULE Spec2Model ----------------------------
(***************************************************************************)
(* Model of the news-ai-filter digest pipeline:                            *)
(*   collectors -> _collect_from_all_sources -> _parse_and_filter_content  *)
(*   -> analyze_batch -> generate_digest.                                  *)
(*                                                                         *)
(* Specifications:                                                         *)
(*   Spec        runs of generate_daily_digest against one database        *)
(*   SpecFaults  the same runs when a database call or file write may fail *)
(*   SpecCollect one collect() call of a collector of each kind            *)
(*   SpecScore   analyze_batch on one item, for every short response text  *)
(*   SpecDigest  generate_digest applied to lists of scored items          *)
(*   SpecInsights one generate_insights call, for every short answer       *)
(*   SpecFanOut  the tasks of the two gather calls, from their creation    *)
(*   SpecStartup start() of the application under every setting            *)
(*   SpecOrder   one run, recording the order in which its tasks finish    *)
(*   SpecTwoRuns a /digest run and a scheduled run in the same event loop  *)
(***************************************************************************)
EXTENDS Integers, Sequences, FiniteSets, TLC

VARIABLES
    app,                \* main.py:30   the application: its settings, how far start() has come
    now,                \* the wall clock, in hours
    db_content,         \* database.py:30   rows of the content table
    db_digests,         \* database.py:47   rows of the digests table
    collect_tasks,      \* digest_service.py:124  one _safe_collect task per source
    raw_content,        \* digest_service.py:61   list of RawContent of the run
    run,                \* the generate_daily_digest call: number, progress, return value
    dedup_log,          \* history: every duplicate check made, with its verdict
    offered,            \* history: number of items the sources have handed out
    col,                \* one collect() call of a collector: its position and locals
    pc,                 \* where the generation run (or the component under study) stands
    parsed_content,     \* digest_service.py:68  list of ParsedContent that passed dedup
    tasks,              \* ai_analyzer.py:69     one analyze_content task per parsed item
    analyzed_content,   \* digest_service.py:75  list of AnalyzedContent of the run
    top_content,        \* digest_service.py:82  sorted(analyzed_content)[:5]
    digest,             \* digest_service.py:86  the Digest, or NoDigest before assembly
    finished,           \* history: the tasks of the run in the order they finished
    jobs                \* two generate_daily_digest calls in one event loop

\* the variables of the scoring and assembly steps, and the others
scoreVars == <<pc, parsed_content, tasks, analyzed_content, top_content, digest>>
colVars == <<col>>
pipeVars == <<app, now, db_content, db_digests, collect_tasks, raw_content, run, dedup_log,
             offered, finished, jobs>>
envVars == <<app, now, db_content, db_digests, collect_tasks, raw_content, run, dedup_log,
             offered, col, finished, jobs>>
\* envVars without the history of finished tasks, for the steps that end a task
taskEnvVars == <<app, now, db_content, db_digests, collect_tasks, raw_content, run, dedup_log,
                 offered, col, jobs>>
vars == <<app, now, db_content, db_digests, collect_tasks, raw_content, run, dedup_log, offered,
          col, pc, parsed_content, tasks, analyzed_content, top_content, digest, finished, jobs>>

(***************************************************************************)
(* MarketingDigestBot (main.py): the settings read by config.py and the    *)
(* steps of start()                                                        *)
(***************************************************************************)
Providers == {"openai", "anthropic", "other"}

\* the settings start() looks at; a setting is TRUE when it has a value
Configs ==
    [TELEGRAM_BOT_TOKEN : BOOLEAN, ALLOWED_USER_IDS : BOOLEAN, AI_PROVIDER : Providers,
     OPENAI_API_KEY : BOOLEAN, ANTHROPIC_API_KEY : BOOLEAN, TELEGRAM_API_ID : BOOLEAN,
     TELEGRAM_API_HASH : BOOLEAN, TELEGRAM_PHONE : BOOLEAN]

\* _check_config's required_vars: the names it tests
RequiredVars(config) ==
    {"TELEGRAM_BOT_TOKEN", "ALLOWED_USER_IDS"}
        \cup (IF config.AI_PROVIDER = "openai" THEN {"OPENAI_API_KEY"}
              ELSE IF config.AI_PROVIDER = "anthropic" THEN {"ANTHROPIC_API_KEY"}
              ELSE {})
        \cup (IF config.TELEGRAM_API_ID /\ config.TELEGRAM_API_HASH
              THEN {"TELEGRAM_API_ID", "TELEGRAM_API_HASH", "TELEGRAM_PHONE"}
              ELSE {})

\* missing_vars: the required names without a value
MissingVars(config) == {v \in RequiredVars(config) : ~config[v]}

AIAnalyzerInitAccepts(config) == FALSE

\* AIAnalyzer.__init__ raises ValueError for a provider it does not know
AIAnalyzerInitRaises(config) == config.AI_PROVIDER \notin {"openai", "anthropic"}

\* a started application with complete settings
RunningApp ==
    [pc |-> "running",
     config |-> [TELEGRAM_BOT_TOKEN |-> TRUE, ALLOWED_USER_IDS |-> TRUE,
                 AI_PROVIDER |-> "openai", OPENAI_API_KEY |-> TRUE,
                 ANTHROPIC_API_KEY |-> FALSE, TELEGRAM_API_ID |-> FALSE,
                 TELEGRAM_API_HASH |-> FALSE, TELEGRAM_PHONE |-> FALSE]]

\* the two callers of generate_daily_digest that share the event loop
JobNames == {"manual", "scheduled"}
\* a generate_daily_digest call that has not been made
NoJob == [pc |-> "idle", n |-> 0, raw |-> <<>>, next |-> 1, parsed |-> <<>>]
NoJobs == [j \in JobNames |-> NoJob]

NoDigest == [id |-> 0, top_items |-> <<>>, other_items |-> <<>>, sent_at |-> "None",
             assembled |-> FALSE]

(***************************************************************************)
(* Bounds of the model                                                     *)
(***************************************************************************)
MaxScored == 22      \* longest list of scored items handed to generate_digest
MaxFree == 3         \* leading items whose score is chosen freely
MaxRespLen == 4      \* longest provider response text, in tokens
MaxFeed == 2         \* most entries a source offers to one collect() call
MaxLineLen == 3      \* longest free line of an insights answer, in characters
MaxListLines == 3    \* most list lines before the free line of an insights answer
MaxFaults == 1       \* most database or file failures injected in one behaviour
MaxBatch == 11       \* most sources, and most parsed items, of a followed gather
MaxRuns == 2         \* generation runs
MaxOffered == 2      \* items the sources hand out over all runs
MaxTime == 25        \* the clock stops here
MaxJobBatch == 2     \* items collected by one of two concurrent runs

\* scores the scorer can hand to the ranker (all within 0..100)
ScoreValues == {0, 29, 30, 100}

(***************************************************************************)
(* Program constants                                                       *)
(***************************************************************************)
TOP_N == 5
OTHER_MIN_SCORE == 30
OTHER_CAP == 15

(***************************************************************************)
(* Sequence helpers                                                        *)
(***************************************************************************)
Min(a, b) == IF a <= b THEN a ELSE b
Max(a, b) == IF a >= b THEN a ELSE b

\* Python slice s[:n]
Take(s, n) == SubSeq(s, 1, Min(n, Len(s)))
\* Python slice s[n:]
Drop(s, n) == SubSeq(s, n + 1, Len(s))

RECURSIVE SelectSeqBy(_, _)
\* [x for x in s if Test(x)] for the >= threshold test of _categorize_remaining_items
SelectSeqBy(s, minScore) ==
    IF s = <<>> THEN <<>>
    ELSE LET rest == SelectSeqBy(Tail(s), minScore)
         IN IF Head(s).importance_score >= minScore THEN <<Head(s)>> \o rest ELSE rest

(***************************************************************************)
(* Ranking: sorted(content_list, key=importance_score, reverse=True).      *)
(* Python's sort is stable, also with reverse=True: elements with equal    *)
(* keys keep their order of the input list.                                *)
(***************************************************************************)
\* insert x into a list already sorted descending, after every element whose
\* score is >= x's (so x stays behind earlier-arrived equals)
InsertUnstable(s, x) ==
    LET k == Cardinality({i \in DOMAIN s : s[i].importance_score > x.importance_score})
    IN SubSeq(s, 1, k) \o <<x>> \o SubSeq(s, k + 1, Len(s))

InsertDescNewestFirst(s, x) ==
    LET k == Cardinality({i \in DOMAIN s :
                \/ s[i].importance_score > x.importance_score
                \/ /\ s[i].importance_score = x.importance_score
                   /\ s[i].published_at >= x.published_at})
    IN SubSeq(s, 1, k) \o <<x>> \o SubSeq(s, k + 1, Len(s))

InsertDesc(s, x) ==
    LET k == Cardinality({i \in DOMAIN s : s[i].importance_score >= x.importance_score})
    IN SubSeq(s, 1, k) \o <<x>> \o SubSeq(s, k + 1, Len(s))

RECURSIVE SortedByScoreDesc(_)
SortedByScoreDesc(s) ==
    IF s = <<>> THEN <<>>
    ELSE InsertDesc(SortedByScoreDesc(SubSeq(s, 1, Len(s) - 1)), s[Len(s)])

(***************************************************************************)
(* DigestGenerator                                                         *)
(***************************************************************************)
\* DigestItem(title, source, importance_score, ...) built from an AnalyzedContent
DigestItem(item) ==
    [title |-> item.title, source |-> item.source_name,
     importance_score |-> item.importance_score]

DigestItems(s) == [i \in DOMAIN s |-> DigestItem(s[i])]

TopSliceShort(sorted_content) == Take(sorted_content, TOP_N - 1)

TopSliceThreshold(sorted_content) ==
    Take(SelectSeq(sorted_content, LAMBDA x : x.importance_score >= OTHER_MIN_SCORE), TOP_N)

\* sorted_content[:5]
TopSlice(sorted_content) == Take(sorted_content, TOP_N)

CategorizeNoThreshold(items) == Take(DigestItems(items), OTHER_CAP)

\* _categorize_remaining_items(items): keep score >= 30, then result[:15]
CategorizeRemainingItems(items) ==
    Take(DigestItems(SelectSeqBy(items, OTHER_MIN_SCORE)), OTHER_CAP)

\* generate_digest(content_list, insights, user_id)
GenerateDigest(content_list) ==
    LET sorted_content == SortedByScoreDesc(content_list)
    IN [id |-> 0,
        top_items |-> DigestItems(TopSlice(sorted_content)),
        other_items |-> CategorizeRemainingItems(Drop(sorted_content, TOP_N)),
        sent_at |-> "None",
        assembled |-> TRUE]

\* digest_service.py:82
TopContent(analyzed) == Take(SortedByScoreDesc(analyzed), TOP_N)

(***************************************************************************)
(* The generate_daily_digest call                                          *)
(***************************************************************************)
\* return values of generate_daily_digest
NOT_RETURNED == "not returned"
EMPTY_DIGEST == "empty digest text"
TELEGRAM_TEXT == "formatted digest text"
NONE_RESULT == "None"

NoRun == [n |-> 0, collected |-> FALSE, filtered |-> FALSE, digest_calls |-> 0,
          insights_response |-> [kind |-> "unset", text |-> <<>>], insights |-> <<>>,
          fault |-> "none", faults |-> 0, result |-> NOT_RETURNED]

(***************************************************************************)
(* Collectors.  A collect() call walks through the entries its source      *)
(* offers.  An entry is [age, size]: hours since publication and the       *)
(* length of the stripped body.  RawContent is [source_id, title, age,     *)
(* size], the title being the entry's position in the feed.                *)
(***************************************************************************)
MAX_CONTENT_AGE_HOURS == 24
TELEGRAM_MIN_LEN == 50
RSS_MIN_LEN == 100
WEBPAGE_MIN_LEN == 200
YOUTUBE_MIN_LEN == 100

CollectorKinds == {"telegram", "rss", "webpage", "youtube"}

MinLenOf(kind) ==
    CASE kind = "telegram" -> TELEGRAM_MIN_LEN
      [] kind = "rss" -> RSS_MIN_LEN
      [] kind = "webpage" -> WEBPAGE_MIN_LEN
      [] OTHER -> YOUTUBE_MIN_LEN

\* what a source of the kind can offer: ages around the window's edge, sizes
\* around the kind's minimum body length
FeedEntries(kind) ==
    [age : {0, MAX_CONTENT_AGE_HOURS, MAX_CONTENT_AGE_HOURS + 1},
     size : {MinLenOf(kind) - 1, MinLenOf(kind), MinLenOf(kind) + 1}]

RawContent(source_id, title, age, size) ==
    [source_id |-> source_id, title |-> title, age |-> age, size |-> size]

NoCollector ==
    [kind |-> "none", pc |-> "returned", feed |-> <<>>, next |-> 1, items |-> <<>>,
     result |-> <<>>, raises |-> FALSE, failed |-> {}]

\* a collector constructed for a source of the kind, before collect() is called
NewCollector(kind, feed) ==
    [kind |-> kind, pc |-> "start", feed |-> feed, next |-> 1, items |-> <<>>,
     result |-> <<>>, raises |-> FALSE, failed |-> {}]

HandlerReraises(c, what) ==
    [c EXCEPT !.pc = "returned", !.result = <<>>, !.raises = TRUE,
              !.failed = @ \cup {what}]

\* the except branch of collect(): log and return []
Handler(c, what) ==
    [c EXCEPT !.pc = "returned", !.result = <<>>, !.raises = FALSE,
              !.failed = @ \cup {what}]

\* return value of collect() on a path that raised nothing
Return(c, value) == [c EXCEPT !.pc = "returned", !.result = value]

\* the entry the loop of collect() is at
Entry(c) == c.feed[c.next]
MoreEntries(c) == c.next <= Len(c.feed)
Skip(c) == [c EXCEPT !.next = @ + 1]
Keep(c) ==
    [c EXCEPT !.next = @ + 1,
              !.items = Append(@, RawContent(c.kind, c.next, Entry(c).age, Entry(c).size))]

\* TelegramCollector.collect: _init_client and get_entity
TelegramConnect ==
    /\ col.kind = "telegram" /\ col.pc = "start"
    /\ \/ col' = [col EXCEPT !.pc = "loop"]
       \/ col' = Return(col, <<>>)                \* the entity is not a Channel
       \/ col' = Handler(col, "transport")        \* the client or the lookup raises
    /\ UNCHANGED <<scoreVars, pipeVars>>

\* TelegramCollector.collect: one turn of the loop over iter_messages
TelegramMessage ==
    /\ col.kind = "telegram" /\ col.pc = "loop"
    /\ \/ /\ ~MoreEntries(col)
          /\ col' = Return(col, col.items)
       \/ /\ MoreEntries(col)
          /\ col' = IF Entry(col).age > MAX_CONTENT_AGE_HOURS
                    THEN Return(col, col.items)                  \* break
                    ELSE IF Entry(col).size > TELEGRAM_MIN_LEN
                         THEN Keep(col) ELSE Skip(col)
       \/ col' = Handler(col, "transport")        \* iter_messages raises
    /\ UNCHANGED <<scoreVars, pipeVars>>

\* WebCollector.collect -> _collect_rss / _collect_webpage: session.get
WebGet ==
    /\ col.kind \in {"rss", "webpage"} /\ col.pc = "start"
    /\ \/ col' = [col EXCEPT !.pc = "loop"]
       \/ col' = Return(col, <<>>)                \* response.status != 200
       \/ col' = Handler(col, "transport")        \* the request raises
    /\ UNCHANGED <<scoreVars, pipeVars>>

\* WebCollector._collect_rss: one turn of the loop over feed.entries
RssEntry ==
    /\ col.kind = "rss" /\ col.pc = "loop"
    /\ \/ /\ ~MoreEntries(col)
          /\ col' = Return(col, col.items)
       \/ /\ MoreEntries(col)
          /\ col' = IF Entry(col).age > MAX_CONTENT_AGE_HOURS
                    THEN Skip(col)                               \* continue
                    ELSE IF Entry(col).size < RSS_MIN_LEN
                         THEN Skip(col) ELSE Keep(col)
       \/ /\ MoreEntries(col)
          /\ col' = Handler(col, "parse")         \* the entry cannot be converted
    /\ UNCHANGED <<scoreVars, pipeVars>>

\* WebCollector._collect_webpage: one turn of the loop over the articles;
\* published_at is the time of collection
WebArticle ==
    /\ col.kind = "webpage" /\ col.pc = "loop"
    /\ \/ /\ ~MoreEntries(col)
          /\ col' = Return(col, col.items)
       \/ /\ MoreEntries(col)
          /\ col' = IF Entry(col).size < WEBPAGE_MIN_LEN
                    THEN Skip(col)
                    ELSE [col EXCEPT !.next = @ + 1,
                             !.items = Append(@, RawContent(col.kind, col.next, 0,
                                                            Entry(col).size))]
       \/ /\ MoreEntries(col)
          /\ col' = Handler(col, "parse")         \* the article cannot be converted
    /\ UNCHANGED <<scoreVars, pipeVars>>

\* YouTubeCollector.collect: the MCP_SERVER_URL test and _get_recent_videos,
\* which catches its own exceptions and then returns no videos
YouTubeVideos ==
    /\ col.kind = "youtube" /\ col.pc = "start"
    /\ \/ col' = [col EXCEPT !.pc = "loop"]
       \/ col' = Return(col, <<>>)                \* MCP_SERVER_URL is not set
       \/ col' = [col EXCEPT !.pc = "loop", !.feed = <<>>,
                             !.failed = @ \cup {"videos"}]
    /\ UNCHANGED <<scoreVars, pipeVars>>

\* YouTubeCollector.collect: one turn of the loop over the videos.
\* _get_video_summary catches its own exceptions and returns "", which only
\* drops this video; a video record that cannot be read raises in collect.
YouTubeVideo ==
    /\ col.kind = "youtube" /\ col.pc = "loop"
    /\ \/ /\ ~MoreEntries(col)
          /\ col' = Return(col, col.items)
       \/ /\ MoreEntries(col)
          /\ col' = IF Entry(col).size > YOUTUBE_MIN_LEN THEN Keep(col) ELSE Skip(col)
       \/ /\ MoreEntries(col)
          /\ col' = [Skip(col) EXCEPT !.failed = @ \cup {"summary"}]
       \/ /\ MoreEntries(col)
          /\ col' = Handler(col, "parse")
    /\ UNCHANGED <<scoreVars, pipeVars>>

(***************************************************************************)
(* AIAnalyzer: provider responses and their parsing.                       *)
(*                                                                         *)
(* A response text is a sequence of tokens: "SCORE:" is the label          *)
(* "Оценка:", "EXPL:" the label "Объяснение:", " " a whitespace character, *)
(* "0" and "1" digits, "a" any other character.  A provider call either    *)
(* raises, returns no text (None), or returns a text.                      *)
(***************************************************************************)
Tokens == {"SCORE:", "EXPL:", " ", "0", "1", "a"}

RECURSIVE SeqsUpTo(_, _)
\* all sequences over S of length <= n
SeqsUpTo(S, n) ==
    IF n = 0 THEN {<<>>}
    ELSE LET shorter == SeqsUpTo(S, n - 1)
         IN shorter \cup {Append(t, x) : t \in {u \in shorter : Len(u) = n - 1}, x \in S}

Raise == [kind |-> "raise", text |-> <<>>]
NoneText == [kind |-> "none", text |-> <<>>]
Text(t) == [kind |-> "text", text |-> t]

IsDigit(c) == c \in {"0", "1"}
IsSpace(c) == c = " "
DigitValue(c) == IF c = "1" THEN 1 ELSE 0

RECURSIVE IntOf(_)
\* int(digits)
IntOf(ds) ==
    IF ds = <<>> THEN 0
    ELSE 10 * IntOf(SubSeq(ds, 1, Len(ds) - 1)) + DigitValue(ds[Len(ds)])

\* first position >= i of s that holds no whitespace (Len(s) + 1 if none): \s*
SkipSpaces(s, i) ==
    LET stops == {j \in i..Len(s) : ~IsSpace(s[j])}
    IN IF stops = {} THEN Max(i, Len(s) + 1)
       ELSE CHOOSE j \in stops : \A k \in stops : j <= k

\* last position of the run of digits starting at j: (\d+), greedy
DigitsEnd(s, j) ==
    LET stops == {k \in j..Len(s) : ~IsDigit(s[k])}
    IN IF stops = {} THEN Len(s)
       ELSE (CHOOSE k \in stops : \A m \in stops : k <= m) - 1

ScoreMatchesAdjacent(s) ==
    {i \in DOMAIN s : s[i] = "SCORE:" /\ i < Len(s) /\ IsDigit(s[i + 1])}

\* re.search(r'Оценка:\s*(\d+)', response): positions where the pattern matches
ScoreMatches(s) ==
    {i \in DOMAIN s :
        /\ s[i] = "SCORE:"
        /\ LET j == SkipSpaces(s, i + 1) IN j <= Len(s) /\ IsDigit(s[j])}

\* re.search(r'Объяснение:\s*(.+)', response, re.DOTALL): with DOTALL the group
\* matches any character, so the pattern matches at a label that is not the
\* last character of the text
ExplMatches(s) == {i \in DOMAIN s : s[i] = "EXPL:" /\ i < Len(s)}

LeastOf(S) == CHOOSE i \in S : \A j \in S : i <= j

RECURSIVE RStrip(_)
RStrip(s) ==
    IF s # <<>> /\ IsSpace(s[Len(s)]) THEN RStrip(SubSeq(s, 1, Len(s) - 1)) ELSE s

RECURSIVE LStrip(_)
LStrip(s) == IF s # <<>> /\ IsSpace(Head(s)) THEN LStrip(Tail(s)) ELSE s

\* str.strip()
Strip(s) == LStrip(RStrip(s))

\* explanation strings
Explanation(kind, text) == [kind |-> kind, text |-> text]
EXPL_NONE == Explanation("no_explanation", <<>>)          \* "Нет объяснения"
EXPL_PARSE_ERROR == Explanation("parse_error", <<>>)      \* "Ошибка парсинга ответа"
EXPL_FAILED == Explanation("importance_failed", <<>>)     \* "Не удалось проанализировать"
EXPL_ANALYSIS_ERROR == Explanation("analysis_error", <<>>) \* "Ошибка анализа"

DEFAULT_SCORE == 50
SCORE_MAX == 100
ERROR_SCORE == 0

ClampNone(score) == score

\* max(0, min(100, score))
ClampScore(score) == Max(0, Min(SCORE_MAX, score))

\* _parse_importance_response(response); a response that is no string makes
\* re.search raise, which the function's own handler turns into the default
ParseImportanceResponse(response) ==
    IF response.kind # "text"
    THEN [score |-> DEFAULT_SCORE, explanation |-> EXPL_PARSE_ERROR]
    ELSE LET s == response.text
             sm == ScoreMatches(s)
             em == ExplMatches(s)
             score == IF sm # {}
                      THEN LET j == SkipSpaces(s, LeastOf(sm) + 1)
                           IN ClampScore(IntOf(SubSeq(s, j, DigitsEnd(s, j))))
                      ELSE DEFAULT_SCORE
             explanation ==
                      IF em # {}
                      THEN Explanation("parsed", Strip(SubSeq(s, LeastOf(em) + 1, Len(s))))
                      ELSE EXPL_NONE
         IN [score |-> score, explanation |-> explanation]

ImportanceFailurePropagates ==
    [raises |-> TRUE, score |-> DEFAULT_SCORE, explanation |-> EXPL_FAILED]

\* the handler of _analyze_importance: return 50, "Не удалось проанализировать"
ImportanceFailure ==
    [raises |-> FALSE, score |-> DEFAULT_SCORE, explanation |-> EXPL_FAILED]

\* _analyze_importance(content), given what the provider call does
AnalyzeImportance(outcome) ==
    IF outcome.kind = "raise" THEN ImportanceFailure
    ELSE LET r == ParseImportanceResponse(outcome)
         IN [raises |-> FALSE, score |-> r.score, explanation |-> r.explanation]

\* ContentCategory values and the labels the provider is asked to answer with
Categories == {"TRENDS", "CHANNELS", "CASES", "TECHNOLOGY", "RESEARCH", "CREATIVE", "OTHER"}
KnownLabels == Categories \ {"OTHER"}

CategorizeNoStrip(outcome) ==
    IF outcome.kind # "text" THEN [raises |-> FALSE, category |-> "OTHER"]
    ELSE [raises |-> FALSE,
          category |-> IF Len(outcome.text) = 1 /\ outcome.text[1] \in KnownLabels
                       THEN outcome.text[1] ELSE "OTHER"]

\* category_mapping.get(result, ContentCategory.OTHER) on the stripped answer;
\* an answer that is no string makes .strip() raise, a raise gives OTHER
CategorizeContent(outcome) ==
    IF outcome.kind # "text" THEN [raises |-> FALSE, category |-> "OTHER"]
    ELSE LET result == Strip(outcome.text)
         IN [raises |-> FALSE,
             category |-> IF Len(result) = 1 /\ result[1] \in KnownLabels
                          THEN result[1] ELSE "OTHER"]

\* the item analyze_content builds from a parsed item
AnalyzedContent(content, score, category, explanation) ==
    [id |-> content.id, source_id |-> content.source_id,
     source_name |-> content.source_name, title |-> content.title,
     published_at |-> content.published_at,
     importance_score |-> score, category |-> category, explanation |-> explanation]

\* analyze_content(content), given the results of its two helper calls: the
\* item with the helpers' values, or, if a helper raised, the handler's item
\* with the minimal values.  It never raises itself.
AnalyzeContent(content, imp, cat) ==
    IF imp.raises \/ cat.raises
    THEN [raises |-> FALSE,
          item |-> AnalyzedContent(content, ERROR_SCORE, "OTHER", EXPL_ANALYSIS_ERROR)]
    ELSE [raises |-> FALSE,
          item |-> AnalyzedContent(content, imp.score, cat.category, imp.explanation)]

(***************************************************************************)
(* analyze_batch: one analyze_content task per item, run by asyncio.gather *)
(* (return_exceptions=True).  A task is suspended at its two provider      *)
(* calls, so the tasks of a batch interleave at these points.              *)
(***************************************************************************)
Unset == [kind |-> "unset", text |-> <<>>]
NoImp == [raises |-> FALSE, score |-> DEFAULT_SCORE, explanation |-> Explanation("unset", <<>>)]
NoCat == [raises |-> FALSE, category |-> "OTHER"]

\* a task that has not started
NewTask ==
    [pc |-> "importance", response |-> Unset, imp_raised |-> FALSE, cat_raised |-> FALSE,
     cat_response |-> Unset, imp |-> NoImp, raises |-> FALSE, result |-> <<>>]

\* the task of item i up to and including its importance provider call
TaskImportance(i, Outcomes) ==
    /\ pc = "analyze"
    /\ i \in DOMAIN tasks
    /\ tasks[i].pc = "importance"
    /\ \E o \in Outcomes :
         LET imp == AnalyzeImportance(o)
             r == AnalyzeContent(parsed_content[i], imp, NoCat)
         IN tasks' = [tasks EXCEPT ![i] =
                IF imp.raises
                THEN [@ EXCEPT !.pc = "done", !.response = o,
                               !.imp_raised = (o.kind = "raise"), !.imp = imp,
                               !.raises = r.raises, !.result = <<r.item>>]
                ELSE [@ EXCEPT !.pc = "categorize", !.response = o,
                               !.imp_raised = (o.kind = "raise"), !.imp = imp]]
    /\ UNCHANGED <<pc, parsed_content, analyzed_content, top_content, digest>>
    /\ UNCHANGED envVars

\* the task of item i from its categorization provider call to its return
TaskCategorize(i, Outcomes) ==
    /\ pc = "analyze"
    /\ i \in DOMAIN tasks
    /\ tasks[i].pc = "categorize"
    /\ \E o \in Outcomes :
         LET r == AnalyzeContent(parsed_content[i], tasks[i].imp, CategorizeContent(o))
         IN tasks' = [tasks EXCEPT ![i] =
                [@ EXCEPT !.pc = "done", !.cat_raised = (o.kind = "raise"),
                          !.cat_response = o,
                          !.raises = r.raises, !.result = <<r.item>>]]
    /\ UNCHANGED <<pc, parsed_content, analyzed_content, top_content, digest>>
    /\ UNCHANGED taskEnvVars

RECURSIVE BatchResultsDropFailed(_)
BatchResultsDropFailed(ts) ==
    IF ts = <<>> THEN <<>>
    ELSE IF Head(ts).raises \/ Head(ts).imp_raised \/ Head(ts).cat_raised
         THEN BatchResultsDropFailed(Tail(ts))
         ELSE Head(ts).result \o BatchResultsDropFailed(Tail(ts))

RECURSIVE BatchResultsReversed(_)
BatchResultsReversed(ts) ==
    IF ts = <<>> THEN <<>>
    ELSE IF Head(ts).raises THEN BatchResultsReversed(Tail(ts))
         ELSE BatchResultsReversed(Tail(ts)) \o Head(ts).result

RECURSIVE BatchResults(_)
\* the loop over gather's results: an exception is logged and skipped
BatchResults(ts) ==
    IF ts = <<>> THEN <<>>
    ELSE IF Head(ts).raises THEN BatchResults(Tail(ts))
         ELSE Head(ts).result \o BatchResults(Tail(ts))

\* gather returns once every task has finished; analyze_batch returns its list
BatchGather ==
    /\ pc = "analyze"
    /\ \A i \in DOMAIN tasks : tasks[i].pc = "done"
    /\ analyzed_content' = BatchResults(tasks)
    /\ pc' = "analyzed"
    /\ UNCHANGED <<parsed_content, tasks, top_content, digest>>
    /\ UNCHANGED envVars

(***************************************************************************)
(* SpecScore: analyze_batch on one parsed item, for every response text of *)
(* at most MaxRespLen tokens.                                              *)
(***************************************************************************)
ParsedContent(id, source_id, title, published_at, is_ad) ==
    [id |-> id, source_id |-> source_id, source_name |-> source_id, title |-> title,
     published_at |-> published_at, is_ad |-> is_ad]

ImportanceOutcomes == {Raise, NoneText} \cup {Text(t) : t \in SeqsUpTo(Tokens, MaxRespLen)}

CategoryOutcomes ==
    {Raise, NoneText, Text(<<>>), Text(<<"TRENDS">>), Text(<<" ", "CASES", " ">>),
     Text(<<"OTHER">>), Text(<<"a">>), Text(<<"TRENDS", "a">>),
     Text(<<"CASES", " ", "CASES">>)}

SInit ==
    /\ pc = "analyze"
    /\ parsed_content = <<ParsedContent(1, 1, "X", 0, FALSE)>>
    /\ tasks = <<NewTask>>
    /\ col = NoCollector
    /\ app = RunningApp
    /\ now = 0
    /\ db_content = <<>>
    /\ db_digests = <<>>
    /\ collect_tasks = <<>>
    /\ raw_content = <<>>
    /\ run = NoRun
    /\ dedup_log = <<>>
    /\ offered = 0
    /\ analyzed_content = <<>>
    /\ top_content = <<>>
    /\ digest = NoDigest
    /\ finished = <<>>
    /\ jobs = NoJobs

SNext ==
    \/ \E i \in DOMAIN tasks : TaskImportance(i, ImportanceOutcomes)
    \/ \E i \in DOMAIN tasks : TaskCategorize(i, CategoryOutcomes) /\ UNCHANGED finished
    \/ BatchGather

SpecScore == SInit /\ [][SNext]_vars

(***************************************************************************)
(* SpecCollect: one collect() call of each collector variant on every feed *)
(* of at most MaxFeed entries.                                             *)
(***************************************************************************)
Feeds(kind) == SeqsUpTo(FeedEntries(kind), MaxFeed)

CInit ==
    /\ \E kind \in CollectorKinds : \E feed \in Feeds(kind) :
          col = NewCollector(kind, feed)
    /\ pc = "collect"
    /\ parsed_content = <<>>
    /\ tasks = <<>>
    /\ app = RunningApp
    /\ now = 0
    /\ db_content = <<>>
    /\ db_digests = <<>>
    /\ collect_tasks = <<>>
    /\ raw_content = <<>>
    /\ run = NoRun
    /\ dedup_log = <<>>
    /\ offered = 0
    /\ analyzed_content = <<>>
    /\ top_content = <<>>
    /\ digest = NoDigest
    /\ finished = <<>>
    /\ jobs = NoJobs

CNext ==
    \/ TelegramConnect
    \/ TelegramMessage
    \/ WebGet
    \/ RssEntry
    \/ WebArticle
    \/ YouTubeVideos
    \/ YouTubeVideo

SpecCollect == CInit /\ [][CNext]_vars

(***************************************************************************)
(* AIAnalyzer.generate_insights.  The provider's answer is a sequence of   *)
(* lines, a line a sequence of characters: "1" is a digit from 1 to 3,     *)
(* "0" any other digit, "." and "-" themselves, " " a whitespace           *)
(* character, "a" any other character.                                     *)
(***************************************************************************)
LineChars == {"1", "0", ".", "-", " ", "a"}

INSIGHT_LIMIT == 3
INSIGHT_EMPTY == <<"no significant news today">>     \* "Сегодня не найдено значимых новостей"
INSIGHT_NONE == <<"no insights formed">>             \* "Не удалось сформировать инсайты"
INSIGHT_ERROR == <<"insights generation error">>     \* "Ошибка генерации инсайтов"

\* line.startswith(('1.', '2.', '3.')) or line.startswith('-')
IsListLine(line) ==
    \/ Len(line) >= 2 /\ line[1] = "1" /\ line[2] = "."
    \/ Len(line) >= 1 /\ line[1] = "-"

\* re.sub(r'^\d+\.\s*', '', line)
StripNumbering(line) ==
    LET d == DigitsEnd(line, 1)
    IN IF d >= 1 /\ d < Len(line) /\ line[d + 1] = "."
       THEN LStrip(SubSeq(line, d + 2, Len(line)))
       ELSE line

\* re.sub(r'^-\s*', '', clean_insight)
StripDash(line) ==
    IF line # <<>> /\ Head(line) = "-" THEN LStrip(Tail(line)) ELSE line

RECURSIVE ParseInsights(_)
\* the loop over the lines of the answer
ParseInsights(lines) ==
    IF lines = <<>> THEN <<>>
    ELSE LET line == Strip(Head(lines))
             clean_insight == StripDash(StripNumbering(line))
             rest == ParseInsights(Tail(lines))
         IN IF line # <<>> /\ IsListLine(line) /\ clean_insight # <<>>
            THEN <<clean_insight>> \o rest
            ELSE rest

InsightsNoLimit(insights) == insights

\* insights[:3]
FirstInsights(insights) == Take(insights, INSIGHT_LIMIT)

InsightsFailurePropagates == [raises |-> TRUE, insights |-> <<>>]

\* the handler of generate_insights: return ["Ошибка генерации инсайтов"]
InsightsFailure == [raises |-> FALSE, insights |-> <<INSIGHT_ERROR>>]

\* generate_insights(top_content), given what the provider call does; an
\* answer that is no string makes .strip() raise, which the handler catches
GenerateInsights(top, outcome) ==
    IF top = <<>> THEN [raises |-> FALSE, insights |-> <<INSIGHT_EMPTY>>]
    ELSE IF outcome.kind # "text" THEN InsightsFailure
    ELSE LET insights == ParseInsights(outcome.text)
         IN [raises |-> FALSE,
             insights |-> IF insights # <<>> THEN FirstInsights(insights)
                          ELSE <<INSIGHT_NONE>>]

(***************************************************************************)
(* DatabaseManager                                                         *)
(***************************************************************************)
DEDUP_WINDOW_HOURS == 24
NULL_SCORE == -1

CheckDuplicateAnySource(rows, title, source_id, t) ==
    \E k \in DOMAIN rows :
        /\ rows[k].title = title
        /\ rows[k].published_at >= t - DEDUP_WINDOW_HOURS

CheckDuplicateNoWindow(rows, title, source_id, t) ==
    \E k \in DOMAIN rows :
        /\ rows[k].title = title
        /\ rows[k].source_id = source_id

\* check_duplicate(title, source_id, hours=24) at time t:
\* COUNT(*) WHERE title = ? AND source_id = ? AND published_at >= cutoff_time
CheckDuplicate(rows, title, source_id, t) ==
    \E k \in DOMAIN rows :
        /\ rows[k].title = title
        /\ rows[k].source_id = source_id
        /\ rows[k].published_at >= t - DEDUP_WINDOW_HOURS

SaveContentDeferred(rows, content) == rows

\* save_content(content): INSERT; the new row's id is cursor.lastrowid
SaveContent(rows, content) ==
    Append(rows, [id |-> Len(rows) + 1, source_id |-> content.source_id,
                  title |-> content.title, published_at |-> content.published_at,
                  importance_score |-> NULL_SCORE, is_ad |-> content.is_ad])

UpdateContentAnalysisSkipped(rows, content_id, score) == rows

\* update_content_analysis(content_id, importance_score, ...)
UpdateContentAnalysis(rows, content_id, score) ==
    [k \in DOMAIN rows |->
        IF rows[k].id = content_id THEN [rows[k] EXCEPT !.importance_score = score]
        ELSE rows[k]]

RECURSIVE SaveAnalyzedContent(_, _)
\* _save_analyzed_content(analyzed_content)
SaveAnalyzedContent(rows, analyzed) ==
    IF analyzed = <<>> THEN rows
    ELSE SaveAnalyzedContent(
            IF Head(analyzed).id # 0
            THEN UpdateContentAnalysis(rows, Head(analyzed).id, Head(analyzed).importance_score)
            ELSE rows,
            Tail(analyzed))

(***************************************************************************)
(* DigestService                                                           *)
(***************************************************************************)
\* the active rows of the sources table, in id order
ActiveSources ==
    <<[id |-> 1, type |-> "website"], [id |-> 2, type |-> "telegram"],
      [id |-> 3, type |-> "youtube"]>>

RECURSIVE OfType(_, _)
\* [s for s in sources if s.type == type]
OfType(sources, type) ==
    IF sources = <<>> THEN <<>>
    ELSE IF Head(sources).type = type
         THEN <<Head(sources)>> \o OfType(Tail(sources), type)
         ELSE OfType(Tail(sources), type)

\* the sources in the order their tasks are appended: Telegram, Web, YouTube
TaskSources ==
    OfType(ActiveSources, "telegram") \o OfType(ActiveSources, "website")
        \o OfType(ActiveSources, "youtube")

\* titles that hold one of the ad keywords
AdTitles == {"Y"}
\* check_for_ad_content(content)
CheckForAdContent(item) == item.title \in AdTitles

\* what collect() of the source's collector can hand to _safe_collect: a list
\* of RawContent, or an exception.  Every source may have nothing or one new
\* post; the website (1) and the channel (2) may fail, the channel may have
\* an older post, and the website may list a post twice or behind an ad.
CollectOutcomes(source_id) ==
    {[raises |-> FALSE, items |-> <<>>],
     [raises |-> FALSE, items |-> <<RawContent(source_id, "X", 0, 300)>>]}
    \cup (IF source_id \in {1, 2} THEN {[raises |-> TRUE, items |-> <<>>]} ELSE {})
    \cup (IF source_id = 2
          THEN {[raises |-> FALSE, items |-> <<RawContent(source_id, "X", 20, 300)>>]}
          ELSE {})
    \cup (IF source_id = 1
          THEN {[raises |-> FALSE, items |-> <<RawContent(source_id, "X", 0, 300),
                                               RawContent(source_id, "X", 0, 300)>>],
                [raises |-> FALSE, items |-> <<RawContent(source_id, "Y", 0, 300),
                                               RawContent(source_id, "X", 0, 300)>>]}
          ELSE {})

\* _safe_collect(collector, source_name): the list, or [] if collect() raised
SafeCollect(outcome) == IF outcome.raises THEN <<>> ELSE outcome.items

\* the collect tasks that have finished, in the order they finished
FinishedCollects == SelectSeq(finished, LAMBDA f : f.task = "collect")

RECURSIVE ResultsInOrder(_, _)
ResultsInOrder(ts, order) ==
    IF order = <<>> THEN <<>>
    ELSE (IF ts[Head(order).k].exception THEN <<>> ELSE ts[Head(order).k].result)
             \o ResultsInOrder(ts, Tail(order))

CollectResultsAsCompleted(ts) == ResultsInOrder(ts, FinishedCollects)

CollectResultsOverwrite(ts) ==
    IF ts = <<>> THEN <<>>
    ELSE IF ts[Len(ts)].exception THEN <<>> ELSE ts[Len(ts)].result

RECURSIVE CollectResults(_)
\* the loop over gather's results: lists are appended to all_content,
\* exceptions are logged
CollectResults(ts) ==
    IF ts = <<>> THEN <<>>
    ELSE IF Head(ts).exception THEN CollectResults(Tail(ts))
         ELSE Head(ts).result \o CollectResults(Tail(ts))

\* digest_service.py:64  if not raw_content: return self._generate_empty_digest()
AfterCollect(raw) == IF raw = <<>> THEN "done" ELSE "parse"

AfterFilterNoCheck(parsed) == "analyze"
\* digest_service.py:71  if not parsed_content: return self._generate_empty_digest()
AfterFilter(parsed) == IF parsed = <<>> THEN "done" ELSE "analyze"

SkipsItemOrAd(dup, is_ad) == dup \/ is_ad

\* the only continue of the loop of _parse_and_filter_content: a duplicate is
\* skipped; the result of check_for_ad_content is stored and not tested
SkipsItem(dup, is_ad) == dup

RECURSIVE ParseAndFilterContent(_, _, _)
\* _parse_and_filter_content(raw_content) at time t on the rows of the content
\* table: the parsed items, the rows afterwards, and the checks made
ParseAndFilterContent(raw, rows, t) ==
    IF raw = <<>> THEN [parsed |-> <<>>, rows |-> rows, checks |-> <<>>]
    ELSE LET item == Head(raw)
             dup == CheckDuplicate(rows, item.title, item.source_id, t)
             parsed_item == ParsedContent(Len(rows) + 1, item.source_id, item.title,
                                          t - item.age, CheckForAdContent(item))
             skip == SkipsItem(dup, parsed_item.is_ad)
             rest == ParseAndFilterContent(Tail(raw),
                        IF skip THEN rows ELSE SaveContent(rows, parsed_item), t)
             check == [source_id |-> item.source_id, title |-> item.title,
                       published_at |-> t - item.age, checked_at |-> t,
                       passed |-> ~dup]
         IN [parsed |-> IF skip THEN rest.parsed ELSE <<parsed_item>> \o rest.parsed,
             rows |-> rest.rows,
             checks |-> <<check>> \o rest.checks]

\* provider outcomes of the runs
RunImportanceOutcomes == {Raise, Text(<<"SCORE:", "1", "0", "0">>)}
RunCategoryOutcomes == {Raise, Text(<<"TRENDS">>)}
RunInsightsOutcomes == {Raise, Text(<<(<<"1", ".", "a">>)>>)}

\* the checks of a batch, each with the number of its run
ChecksOfRun(checks, n) ==
    [k \in DOMAIN checks |->
        [source_id |-> checks[k].source_id, title |-> checks[k].title,
         published_at |-> checks[k].published_at, checked_at |-> checks[k].checked_at,
         passed |-> checks[k].passed, run |-> n]]

\* the steps of a run that call the database or write the digest file
PersistenceCalls ==
    {"check_duplicate", "save_content", "update_content_analysis", "save_digest",
     "save_metrics"}

\* digest_service.py:109-111: an exception of a step that has no handler of
\* its own reaches the handler of generate_daily_digest, which returns None
OuterHandler(step) == NONE_RESULT

\* generate_daily_digest is called: by the /digest handler once the bot is
\* started, or by the scheduler's daily job
StartRun ==
    /\ app.pc \in {"bot_started", "running"}
    /\ pc = "idle"
    /\ run.n < MaxRuns
    /\ pc' = "collect"
    /\ run' = [NoRun EXCEPT !.n = run.n + 1, !.faults = run.faults]
    /\ collect_tasks' = [k \in DOMAIN TaskSources |->
                            [source_id |-> TaskSources[k].id, pc |-> "pending",
                             raised |-> FALSE, offer |-> <<>>, exception |-> FALSE,
                             result |-> <<>>]]
    /\ UNCHANGED <<finished, jobs>>
    /\ UNCHANGED <<app, now, db_content, db_digests, raw_content, dedup_log, offered, col,
                   parsed_content, tasks, analyzed_content, top_content, digest>>

\* the _safe_collect task of the k-th source runs to its end
SafeCollectTask(k) ==
    /\ pc = "collect"
    /\ k \in DOMAIN collect_tasks
    /\ collect_tasks[k].pc = "pending"
    /\ \E o \in CollectOutcomes(collect_tasks[k].source_id) :
         /\ offered + Len(o.items) <= MaxOffered
         /\ offered' = offered + Len(o.items)
         /\ collect_tasks' = [collect_tasks EXCEPT ![k] =
                [@ EXCEPT !.pc = "done", !.raised = o.raises, !.offer = o.items,
                          !.result = SafeCollect(o)]]
    /\ UNCHANGED jobs
    /\ UNCHANGED <<app, now, db_content, db_digests, raw_content, run, dedup_log, col,
                   scoreVars>>

\* gather returns; _collect_from_all_sources returns all_content, and the run
\* ends with the empty digest if there is nothing
CollectGather ==
    /\ pc = "collect"
    /\ \A k \in DOMAIN collect_tasks : collect_tasks[k].pc = "done"
    /\ LET all_content == CollectResults(collect_tasks)
       IN /\ raw_content' = all_content
          /\ pc' = AfterCollect(all_content)
          /\ run' = [run EXCEPT !.collected = TRUE,
                                !.result = IF AfterCollect(all_content) = "done"
                                           THEN EMPTY_DIGEST ELSE @]
    /\ UNCHANGED <<finished, jobs>>
    /\ UNCHANGED <<app, now, db_content, db_digests, collect_tasks, dedup_log, offered, col,
                   parsed_content, tasks, analyzed_content, top_content, digest>>

\* _parse_and_filter_content: no call in its loop suspends, so the loop runs
\* as one step; then the test for an empty list, and analyze_batch creates
\* its tasks
ParseAndFilter ==
    /\ pc = "parse"
    /\ LET r == ParseAndFilterContent(raw_content, db_content, now)
       IN /\ parsed_content' = r.parsed
          /\ db_content' = r.rows
          /\ dedup_log' = dedup_log \o ChecksOfRun(r.checks, run.n)
          /\ pc' = AfterFilter(r.parsed)
          /\ run' = [run EXCEPT !.filtered = TRUE,
                                !.result = IF AfterFilter(r.parsed) = "done"
                                           THEN EMPTY_DIGEST ELSE @]
          /\ tasks' = [i \in DOMAIN r.parsed |-> NewTask]
    /\ UNCHANGED <<finished, jobs>>
    /\ UNCHANGED <<app, now, db_digests, collect_tasks, raw_content, offered, col,
                   analyzed_content, top_content, digest>>

\* _parse_and_filter_content when check_duplicate or save_content raises at
\* the k-th item: the rows of the items before it stay committed, the
\* exception reaches the handler of generate_daily_digest
ParseAndFilterFails ==
    /\ pc = "parse"
    /\ run.faults < MaxFaults
    /\ \E k \in DOMAIN raw_content, step \in {"check_duplicate", "save_content"} :
         LET r == ParseAndFilterContent(SubSeq(raw_content, 1, k - 1), db_content, now)
         IN /\ step = "save_content" =>
                  ~CheckDuplicate(r.rows, raw_content[k].title, raw_content[k].source_id, now)
            /\ db_content' = r.rows
            /\ dedup_log' = dedup_log \o ChecksOfRun(r.checks, run.n)
            /\ run' = [run EXCEPT !.fault = step, !.faults = @ + 1,
                                  !.result = OuterHandler(step)]
    /\ pc' = "done"
    /\ UNCHANGED <<finished, jobs>>
    /\ UNCHANGED <<app, now, db_digests, collect_tasks, raw_content, offered, col,
                   parsed_content, tasks, analyzed_content, top_content, digest>>

\* _save_analyzed_content when update_content_analysis raises at the k-th
\* item: the updates before it stay committed, the exception reaches the
\* handler of generate_daily_digest
SaveAnalyzedFails ==
    /\ pc = "analyzed"
    /\ run.n > 0
    /\ run.faults < MaxFaults
    /\ \E k \in DOMAIN analyzed_content :
         /\ analyzed_content[k].id # 0
         /\ db_content' = SaveAnalyzedContent(db_content, SubSeq(analyzed_content, 1, k - 1))
    /\ run' = [run EXCEPT !.fault = "update_content_analysis", !.faults = @ + 1,
                          !.result = OuterHandler("update_content_analysis")]
    /\ pc' = "done"
    /\ UNCHANGED <<finished, jobs>>
    /\ UNCHANGED <<app, now, db_digests, collect_tasks, raw_content, dedup_log, offered, col,
                   parsed_content, tasks, analyzed_content, top_content, digest>>

\* what can raise after the digest is generated, "none" if nothing does
AssemblyFaults == {"none", "save_digest", "save_to_file", "save_metrics"}
NoFaults == {"none"}

\* digest_service.py:78-111: the scores are written, the insights requested,
AssignDigestIdAndSentAt(d, digest_id) == [d EXCEPT !.id = digest_id, !.sent_at = "now"]

\* digest.id = digest_id, the only assignment to a Digest after generate_digest
AssignDigestId(d, digest_id) == [d EXCEPT !.id = digest_id]

\* the digest generated, saved, written to its file and formatted, the
\* metrics saved, and the text returned; an exception of one of the steps
\* reaches the handler of generate_daily_digest
AssembleDigest(Faults) ==
    /\ pc = "analyzed"
    /\ run.n > 0
    /\ db_content' = SaveAnalyzedContent(db_content, analyzed_content)
    /\ top_content' = TopContent(analyzed_content)
    /\ \E o \in RunInsightsOutcomes, fault \in Faults :
         LET ins == GenerateInsights(TopContent(analyzed_content), o)
         IN IF ins.raises
            THEN /\ run' = [run EXCEPT !.insights_response = o,
                                       !.fault = "generate_insights",
                                       !.result = OuterHandler("generate_insights")]
                 /\ UNCHANGED <<digest, db_digests>>
            ELSE /\ fault # "none" => run.faults < MaxFaults
                 /\ run' = [run EXCEPT !.insights_response = o,
                                       !.insights = ins.insights,
                                       !.digest_calls = @ + 1,
                                       !.fault = fault,
                                       !.faults = IF fault = "none" THEN @ ELSE @ + 1,
                                       !.result = IF fault = "none" THEN TELEGRAM_TEXT
                                                  ELSE OuterHandler(fault)]
                 /\ digest' = IF fault = "save_digest"
                              THEN GenerateDigest(analyzed_content)
                              ELSE AssignDigestId(GenerateDigest(analyzed_content),
                                                  Len(db_digests) + 1)
                 /\ db_digests' = IF fault = "save_digest" THEN db_digests
                                  ELSE Append(db_digests, GenerateDigest(analyzed_content))
    /\ pc' = "done"
    /\ UNCHANGED <<finished, jobs>>
    /\ UNCHANGED <<app, now, collect_tasks, raw_content, dedup_log, offered, col,
                   parsed_content, tasks, analyzed_content>>

\* the call has returned; its locals are gone
EndRun ==
    /\ pc = "done"
    /\ pc' = "idle"
    /\ collect_tasks' = <<>>
    /\ raw_content' = <<>>
    /\ parsed_content' = <<>>
    /\ tasks' = <<>>
    /\ analyzed_content' = <<>>
    /\ top_content' = <<>>
    /\ digest' = NoDigest
    /\ run' = [NoRun EXCEPT !.n = run.n, !.faults = run.faults]
    /\ UNCHANGED <<finished, jobs>>
    /\ UNCHANGED <<app, now, db_content, db_digests, dedup_log, offered, col>>

\* time passes between two runs
Tick ==
    /\ pc = "idle"
    /\ \E d \in {12, 25} :
         /\ now + d <= MaxTime
         /\ now' = now + d
    /\ UNCHANGED <<finished, jobs>>
    /\ UNCHANGED <<app, db_content, db_digests, collect_tasks, raw_content, run, dedup_log,
                   offered, col, scoreVars>>

Init ==
    /\ app = RunningApp
    /\ now = 0
    /\ db_content = <<>>
    /\ db_digests = <<>>
    /\ collect_tasks = <<>>
    /\ raw_content = <<>>
    /\ run = NoRun
    /\ dedup_log = <<>>
    /\ offered = 0
    /\ col = NoCollector
    /\ pc = "idle"
    /\ parsed_content = <<>>
    /\ tasks = <<>>
    /\ analyzed_content = <<>>
    /\ top_content = <<>>
    /\ digest = NoDigest
    /\ finished = <<>>
    /\ jobs = NoJobs

Next ==
    \/ StartRun
    \/ \E k \in DOMAIN collect_tasks : SafeCollectTask(k) /\ UNCHANGED finished
    \/ CollectGather
    \/ ParseAndFilter
    \/ \E i \in DOMAIN tasks : TaskImportance(i, RunImportanceOutcomes)
    \/ \E i \in DOMAIN tasks : TaskCategorize(i, RunCategoryOutcomes) /\ UNCHANGED finished
    \/ BatchGather
    \/ AssembleDigest(NoFaults)
    \/ EndRun
    \/ Tick

Spec == Init /\ [][Next]_vars

\* the runs when a database call or a file write may fail
FaultNext ==
    \/ StartRun
    \/ \E k \in DOMAIN collect_tasks : SafeCollectTask(k) /\ UNCHANGED finished
    \/ CollectGather
    \/ ParseAndFilter
    \/ ParseAndFilterFails
    \/ \E i \in DOMAIN tasks : TaskImportance(i, RunImportanceOutcomes)
    \/ \E i \in DOMAIN tasks : TaskCategorize(i, RunCategoryOutcomes) /\ UNCHANGED finished
    \/ BatchGather
    \/ SaveAnalyzedFails
    \/ AssembleDigest(AssemblyFaults)
    \/ EndRun
    \/ Tick

SpecFaults == Init /\ [][FaultNext]_vars

(***************************************************************************)
(* SpecTwoRuns: generate_daily_digest called by the /digest handler and by *)
(* the scheduler's job, as two coroutines of one event loop on one         *)
(* database.  A coroutine runs until an await of it suspends; only then    *)
(* can the other one take a step.                                          *)
(***************************************************************************)
jobEnvVars == <<app, now, db_digests, collect_tasks, raw_content, run, offered, col, finished>>

SuspendsAlways(call) == TRUE

\* whether the awaited call gives control back to the event loop:
\* _collect_from_all_sources and analyze_batch wait in asyncio.gather for
\* network answers; check_for_ad_content has no await in its body, so
\* awaiting it runs it to its end without a suspension
Suspends(call) == call \in {"_collect_from_all_sources", "analyze_batch"}

\* the coroutine of the job is not running: not called, returned, or
\* suspended in an await
Suspended(job) ==
    \/ job.pc \in {"idle", "done"}
    \/ job.pc = "collecting" /\ Suspends("_collect_from_all_sources")
    \/ job.pc = "checked" /\ Suspends("check_for_ad_content")
    \/ job.pc = "scoring" /\ Suspends("analyze_batch")

\* the event loop can run a step of job j
CanStep(j) == \A o \in JobNames \ {j} : Suspended(jobs[o])

JobNo(j) == IF j = "manual" THEN 1 ELSE 2

\* what the collectors can return to a run: a post of the website, a post of
\* the channel with the same title, and a promotional post of the website
JobItems ==
    {RawContent(1, "X", 0, RSS_MIN_LEN), RawContent(2, "X", 0, TELEGRAM_MIN_LEN + 1),
     RawContent(1, "Y", 0, RSS_MIN_LEN)}
JobBatches == SeqsUpTo(JobItems, MaxJobBatch)

\* the loop of _parse_and_filter_content moves to its next item, or the
\* function returns and the run goes on (digest_service.py:71-74)
NextItem(job, parsed) ==
    [job EXCEPT !.next = @ + 1,
                !.parsed = parsed,
                !.pc = IF job.next < Len(job.raw) THEN "loop"
                       ELSE IF AfterFilter(parsed) = "done" THEN "done" ELSE "scoring"]

\* telegram_bot.py:154 / scheduler.py:70  generate_daily_digest is called and
\* runs up to the gather of _collect_from_all_sources
JobStart(j) ==
    /\ CanStep(j)
    /\ jobs[j].pc = "idle"
    /\ jobs' = [jobs EXCEPT ![j] = [@ EXCEPT !.pc = "collecting", !.n = JobNo(j)]]
    /\ UNCHANGED <<db_content, dedup_log, scoreVars>>
    /\ UNCHANGED jobEnvVars

\* the gather returns: raw_content is set, and the run is at the loop of
\* _parse_and_filter_content or has returned the empty digest
JobCollected(j) ==
    /\ CanStep(j)
    /\ jobs[j].pc = "collecting"
    /\ \E batch \in JobBatches :
         jobs' = [jobs EXCEPT ![j] =
                    [@ EXCEPT !.raw = batch,
                              !.pc = IF AfterCollect(batch) = "done" THEN "done" ELSE "loop"]]
    /\ UNCHANGED <<db_content, dedup_log, scoreVars>>
    /\ UNCHANGED jobEnvVars

\* digest_service.py:167  check_duplicate for the item the loop is at
JobCheckDuplicate(j) ==
    /\ CanStep(j)
    /\ jobs[j].pc = "loop"
    /\ LET item == jobs[j].raw[jobs[j].next]
           dup == CheckDuplicate(db_content, item.title, item.source_id, now)
       IN /\ dedup_log' = Append(dedup_log,
                 [source_id |-> item.source_id, title |-> item.title,
                  published_at |-> now - item.age, checked_at |-> now,
                  passed |-> ~dup, run |-> jobs[j].n])
          /\ jobs' = [jobs EXCEPT ![j] =
                 IF dup THEN NextItem(@, @.parsed) ELSE [@ EXCEPT !.pc = "checked"]]
    /\ UNCHANGED <<db_content, scoreVars>>
    /\ UNCHANGED jobEnvVars

\* digest_service.py:171-191  the await of check_for_ad_content has returned;
\* save_content, and the item is appended to parsed_items
JobSaveContent(j) ==
    /\ CanStep(j)
    /\ jobs[j].pc = "checked"
    /\ LET item == jobs[j].raw[jobs[j].next]
           parsed_item == ParsedContent(Len(db_content) + 1, item.source_id, item.title,
                                        now - item.age, CheckForAdContent(item))
       IN /\ db_content' = SaveContent(db_content, parsed_item)
          /\ jobs' = [jobs EXCEPT ![j] = NextItem(@, Append(@.parsed, parsed_item))]
    /\ UNCHANGED <<dedup_log, scoreVars>>
    /\ UNCHANGED jobEnvVars

\* analyze_batch has returned; the scores are written to the rows of the
\* run's items, the digest is saved and the text returned
JobScored(j) ==
    /\ CanStep(j)
    /\ jobs[j].pc = "scoring"
    /\ \E score \in {DEFAULT_SCORE, SCORE_MAX} :
         db_content' = SaveAnalyzedContent(db_content,
                          [i \in DOMAIN jobs[j].parsed |->
                              AnalyzedContent(jobs[j].parsed[i], score, "OTHER", NoImp.explanation)])
    /\ jobs' = [jobs EXCEPT ![j] = [@ EXCEPT !.pc = "done"]]
    /\ UNCHANGED <<dedup_log, scoreVars>>
    /\ UNCHANGED jobEnvVars

TNext ==
    \/ \E j \in JobNames : JobStart(j)
    \/ \E j \in JobNames : JobCollected(j)
    \/ \E j \in JobNames : JobCheckDuplicate(j)
    \/ \E j \in JobNames : JobSaveContent(j)
    \/ \E j \in JobNames : JobScored(j)

SpecTwoRuns == Init /\ [][TNext]_vars

(***************************************************************************)
(* SpecOrder: one run, with the order in which its collection tasks and    *)
(* its scoring tasks finish written to the history.                        *)
(***************************************************************************)
Finish(task, k) == finished' = Append(finished, [task |-> task, k |-> k])

ONext ==
    \/ StartRun
    \/ \E k \in DOMAIN collect_tasks : SafeCollectTask(k) /\ Finish("collect", k)
    \/ CollectGather
    \/ ParseAndFilter
    \/ \E i \in DOMAIN tasks : TaskImportance(i, RunImportanceOutcomes)
    \/ \E i \in DOMAIN tasks : TaskCategorize(i, RunCategoryOutcomes) /\ Finish("score", i)
    \/ BatchGather
    \/ AssembleDigest(NoFaults)

SpecOrder == Init /\ [][ONext]_vars

(***************************************************************************)
(* SpecStartup: start() of the application under every combination of the  *)
(* settings, up to the first generate_daily_digest call.                   *)
(***************************************************************************)
StartupInit ==
    /\ \E config \in Configs : app = [pc |-> "start", config |-> config]
    /\ now = 0
    /\ db_content = <<>>
    /\ db_digests = <<>>
    /\ collect_tasks = <<>>
    /\ raw_content = <<>>
    /\ run = NoRun
    /\ dedup_log = <<>>
    /\ offered = 0
    /\ col = NoCollector
    /\ pc = "idle"
    /\ parsed_content = <<>>
    /\ tasks = <<>>
    /\ analyzed_content = <<>>
    /\ top_content = <<>>
    /\ digest = NoDigest
    /\ finished = <<>>
    /\ jobs = NoJobs

\* main.py:44  _check_config(): sys.exit(1) if a required setting is missing
CheckConfig ==
    /\ app.pc = "start"
    /\ app' = [app EXCEPT !.pc = IF MissingVars(app.config) # {} THEN "exited"
                                 ELSE "checked"]
    /\ UNCHANGED <<finished, jobs>>
    /\ UNCHANGED <<now, db_content, db_digests, collect_tasks, raw_content, run, dedup_log,
                   offered, col, scoreVars>>

\* main.py:47-49  TelegramBot() and DigestScheduler(bot) each build a
\* DigestService, which builds an AIAnalyzer; its ValueError is caught by
\* start()'s handler, which calls sys.exit(1)
InitComponents ==
    /\ app.pc = "checked"
    /\ app' = [app EXCEPT !.pc = IF AIAnalyzerInitRaises(app.config) THEN "exited"
                                 ELSE "initialized"]
    /\ UNCHANGED <<finished, jobs>>
    /\ UNCHANGED <<now, db_content, db_digests, collect_tasks, raw_content, run, dedup_log,
                   offered, col, scoreVars>>

\* main.py:51  bot.start(): the handlers (among them /digest) are registered
\* and the application is started, or the start fails and start()'s handler
\* calls sys.exit(1)
BotStart ==
    /\ app.pc = "initialized"
    /\ \E ok \in BOOLEAN : app' = [app EXCEPT !.pc = IF ok THEN "bot_started" ELSE "exited"]
    /\ UNCHANGED <<finished, jobs>>
    /\ UNCHANGED <<now, db_content, db_digests, collect_tasks, raw_content, run, dedup_log,
                   offered, col, scoreVars>>

\* main.py:55  scheduler.start()
SchedulerStart ==
    /\ app.pc = "bot_started"
    /\ app' = [app EXCEPT !.pc = "running"]
    /\ UNCHANGED <<finished, jobs>>
    /\ UNCHANGED <<now, db_content, db_digests, collect_tasks, raw_content, run, dedup_log,
                   offered, col, scoreVars>>

StartupNext ==
    \/ CheckConfig
    \/ InitComponents
    \/ BotStart
    \/ SchedulerStart
    \/ StartRun

SpecStartup == StartupInit /\ [][StartupNext]_vars

(***************************************************************************)
(* SpecInsights: one generate_insights call, on no items and on one item,  *)
(* for every answer made of up to MaxListLines list lines and one free     *)
(* line of at most MaxLineLen characters.                                  *)
(***************************************************************************)
ListLines == {<<"1", ".", "a">>, <<"-", "0">>, <<"a">>}

InsightsOutcomes ==
    {Raise, NoneText} \cup
    {Text(Append(ls, free)) : ls \in SeqsUpTo(ListLines, MaxListLines),
                              free \in SeqsUpTo(LineChars, MaxLineLen)}

IInit ==
    /\ pc = "insights"
    /\ top_content \in
         {<<>>, <<AnalyzedContent(ParsedContent(1, 1, "X", 0, FALSE), SCORE_MAX, "OTHER",
                                  EXPL_NONE)>>}
    /\ run = NoRun
    /\ parsed_content = <<>>
    /\ tasks = <<>>
    /\ analyzed_content = <<>>
    /\ digest = NoDigest
    /\ finished = <<>>
    /\ jobs = NoJobs
    /\ col = NoCollector
    /\ app = RunningApp
    /\ now = 0
    /\ db_content = <<>>
    /\ db_digests = <<>>
    /\ collect_tasks = <<>>
    /\ raw_content = <<>>
    /\ dedup_log = <<>>
    /\ offered = 0

\* generate_insights(top_content) from its call to its return; the provider
\* is only called for a non-empty list
InsightsCall ==
    /\ pc = "insights"
    /\ \E o \in (IF top_content = <<>> THEN {Unset} ELSE InsightsOutcomes) :
         run' = [run EXCEPT !.insights_response = o,
                            !.insights = GenerateInsights(top_content, o).insights,
                            !.fault = IF GenerateInsights(top_content, o).raises
                                      THEN "generate_insights" ELSE @]
    /\ pc' = "insights_done"
    /\ UNCHANGED <<finished, jobs>>
    /\ UNCHANGED <<app, now, db_content, db_digests, collect_tasks, raw_content, dedup_log,
                   offered, col, parsed_content, tasks, analyzed_content, top_content,
                   digest>>

INext == InsightsCall

SpecInsights == IInit /\ [][INext]_vars

(***************************************************************************)
(* SpecFanOut: the two gather calls of a run, with the tasks followed from *)
(* their creation.  gather wraps every coroutine in a task; the event loop *)
(* runs the tasks in creation order, each up to its first suspension (the  *)
(* collector's or the provider's network call), before it handles any      *)
(* completed call.  No semaphore or other limit is taken on the way.       *)
(***************************************************************************)
\* config.py:45  CONCURRENT_SOURCES (read nowhere in src/)
CONCURRENT_SOURCES == 10

\* the _safe_collect tasks of n active sources, created and not yet run
CreatedCollectTasks(n) ==
    [k \in 1..n |-> [source_id |-> k, pc |-> "created", raised |-> FALSE, offer |-> <<>>,
                     exception |-> FALSE, result |-> <<>>]]

\* the analyze_content tasks of n parsed items, created and not yet run
CreatedTasks(n) == [i \in 1..n |-> [NewTask EXCEPT !.pc = "created"]]

\* the collector calls that have been made and have not returned
OutstandingCollects == {k \in DOMAIN collect_tasks : collect_tasks[k].pc = "pending"}

\* the provider calls that have been made and have not returned
OutstandingProviderCalls ==
    {i \in DOMAIN tasks : tasks[i].pc \in {"importance", "categorize"}}

FInit ==
    /\ app = RunningApp
    /\ now = 0
    /\ db_content = <<>>
    /\ db_digests = <<>>
    /\ raw_content = <<>>
    /\ run = [NoRun EXCEPT !.n = 1]
    /\ dedup_log = <<>>
    /\ offered = 0
    /\ col = NoCollector
    /\ analyzed_content = <<>>
    /\ top_content = <<>>
    /\ digest = NoDigest
    /\ finished = <<>>
    /\ jobs = NoJobs
    /\ \E n \in 1..MaxBatch :
         \/ /\ pc = "collect"
            /\ collect_tasks = CreatedCollectTasks(n)
            /\ parsed_content = <<>>
            /\ tasks = <<>>
         \/ /\ pc = "analyze"
            /\ collect_tasks = <<>>
            /\ parsed_content = [i \in 1..n |-> ParsedContent(i, i, "X", 0, FALSE)]
            /\ tasks = CreatedTasks(n)

\* the k-th _safe_collect task runs up to collector.collect()'s network call
CollectTaskStart(k) ==
    /\ pc = "collect"
    /\ k \in DOMAIN collect_tasks
    /\ collect_tasks[k].pc = "created"
    /\ \A j \in 1..(k - 1) : collect_tasks[j].pc # "created"
    /\ collect_tasks' = [collect_tasks EXCEPT ![k] = [@ EXCEPT !.pc = "pending"]]
    /\ UNCHANGED <<finished, jobs>>
    /\ UNCHANGED <<app, now, db_content, db_digests, raw_content, run, dedup_log, offered, col,
                   scoreVars>>

\* the collector call of the k-th task returns one item
CollectTaskReturns(k) ==
    /\ pc = "collect"
    /\ k \in DOMAIN collect_tasks
    /\ collect_tasks[k].pc = "pending"
    /\ \A j \in DOMAIN collect_tasks : collect_tasks[j].pc # "created"
    /\ LET o == [raises |-> FALSE,
                 items |-> <<RawContent(collect_tasks[k].source_id, "X", 0, 300)>>]
       IN collect_tasks' = [collect_tasks EXCEPT ![k] =
              [@ EXCEPT !.pc = "done", !.offer = o.items, !.result = SafeCollect(o)]]
    /\ UNCHANGED <<finished, jobs>>
    /\ UNCHANGED <<app, now, db_content, db_digests, raw_content, run, dedup_log, offered, col,
                   scoreVars>>

\* the i-th analyze_content task runs up to the provider call of
\* _analyze_importance
TaskStart(i) ==
    /\ pc = "analyze"
    /\ i \in DOMAIN tasks
    /\ tasks[i].pc = "created"
    /\ \A j \in 1..(i - 1) : tasks[j].pc # "created"
    /\ tasks' = [tasks EXCEPT ![i] = [@ EXCEPT !.pc = "importance"]]
    /\ UNCHANGED <<pc, parsed_content, analyzed_content, top_content, digest>>
    /\ UNCHANGED envVars

\* a provider call returns after every task of the batch has made its first
AllTasksStarted == \A j \in DOMAIN tasks : tasks[j].pc # "created"

FanOutImportance == {Text(<<"SCORE:", "1", "0", "0">>)}
FanOutCategory == {Text(<<"TRENDS">>)}

FNext ==
    \/ \E k \in DOMAIN collect_tasks : CollectTaskStart(k)
    \/ \E k \in DOMAIN collect_tasks : CollectTaskReturns(k)
    \/ CollectGather
    \/ \E i \in DOMAIN tasks : TaskStart(i)
    \/ \E i \in DOMAIN tasks : AllTasksStarted /\ TaskImportance(i, FanOutImportance)
    \/ \E i \in DOMAIN tasks :
          AllTasksStarted /\ TaskCategorize(i, FanOutCategory) /\ UNCHANGED finished
    \/ BatchGather

SpecFanOut == FInit /\ [][FNext]_vars

(***************************************************************************)
(* Claims about the scorer (checked under SpecScore)                       *)
(***************************************************************************)
\* C1: every AnalyzedContent the scorer produces, as the return value of an
\* analyze_content task and as an element of analyze_batch's list, has
\* 0 <= importance_score <= 100, whatever the provider answered or raised.
C1_ScoreInRange ==
    /\ \A i \in DOMAIN tasks :
          tasks[i].result # <<>> =>
             /\ tasks[i].result[1].importance_score >= 0
             /\ tasks[i].result[1].importance_score <= 100
    /\ \A j \in DOMAIN analyzed_content :
          /\ analyzed_content[j].importance_score >= 0
          /\ analyzed_content[j].importance_score <= 100

\* the batch returned an item whose response named a score above 100
C1_Witness ==
    /\ pc = "analyzed"
    /\ tasks[1].response = Text(<<"SCORE:", "1", "0", "1">>)
    /\ Len(analyzed_content) = 1
    /\ analyzed_content[1].importance_score = 100

\* C9: when the provider call of importance scoring raises, _analyze_importance
\* returns (50, the fixed failure explanation) without raising, the task ends
\* without an exception, and the item's final importance_score is 50.
C9_ImportanceFallback ==
    \A i \in DOMAIN tasks :
        tasks[i].imp_raised =>
           /\ ~tasks[i].imp.raises
           /\ tasks[i].imp.score = 50
           /\ tasks[i].imp.explanation.kind = "importance_failed"
           /\ tasks[i].pc = "done" =>
                 /\ ~tasks[i].raises
                 /\ tasks[i].result[1].importance_score = 50
                 /\ tasks[i].result[1].explanation.kind = "importance_failed"
           /\ pc = "analyzed" =>
                 \E j \in DOMAIN analyzed_content :
                    /\ analyzed_content[j].id = parsed_content[i].id
                    /\ analyzed_content[j].importance_score = 50

\* the importance call raised, categorization answered, the batch returned
C9_Witness ==
    /\ pc = "analyzed"
    /\ tasks[1].imp_raised
    /\ ~tasks[1].cat_raised
    /\ Len(analyzed_content) = 1
    /\ analyzed_content[1].importance_score = 50
    /\ analyzed_content[1].category = "CASES"

\* the answer is one category label with nothing but whitespace around it
IsLabelAnswer(o, label) ==
    /\ o.kind = "text"
    /\ \E k \in DOMAIN o.text :
         /\ o.text[k] = label
         /\ \A m \in DOMAIN o.text : m # k => IsSpace(o.text[m])

\* C13: _categorize_content returns the category whose label is exactly the
\* provider's answer without its surrounding whitespace, and OTHER for every
\* other answer, for a missing answer and for a provider call that raises;
\* the category is the one of the returned item.
C13_CategoryMapping ==
    \A i \in DOMAIN tasks :
        tasks[i].pc = "done" /\ ~tasks[i].imp.raises =>
            LET o == tasks[i].cat_response
                category == tasks[i].result[1].category
            IN /\ \A label \in KnownLabels : IsLabelAnswer(o, label) => category = label
               /\ (~\E label \in KnownLabels : IsLabelAnswer(o, label)) => category = "OTHER"
               /\ ~tasks[i].raises

\* a padded label was answered and mapped, in a batch that returned
C13_Witness ==
    /\ pc = "analyzed"
    /\ tasks[1].cat_response = Text(<<" ", "CASES", " ">>)
    /\ analyzed_content[1].category = "CASES"

\* p holds the score label and q the first digit after it and after whitespace
ScoreAt(s, p, q) ==
    /\ s[p] = "SCORE:"
    /\ p < q
    /\ \A m \in (p + 1)..(q - 1) : IsSpace(s[m])
    /\ IsDigit(s[q])

\* the digits from q to e are the whole run of digits that starts at q
DigitRun(s, q, e) ==
    /\ q <= e
    /\ \A m \in q..e : IsDigit(s[m])
    /\ e < Len(s) => ~IsDigit(s[e + 1])

\* C19: _parse_importance_response never raises; without a score label
\* followed by digits the score is 50, otherwise it is the integer after the
\* first such label, limited to [0,100]; without an explanation label the
\* explanation is the fixed placeholder; a response that is no text gives 50
\* and the fixed parse-error string.
C19_DefensiveParsing ==
    \A i \in DOMAIN tasks :
        tasks[i].response.kind \in {"text", "none"} =>
            LET s == tasks[i].response.text
                imp == tasks[i].imp
                labelled == {pq \in (DOMAIN s) \X (DOMAIN s) : ScoreAt(s, pq[1], pq[2])}
            IN /\ ~imp.raises
               /\ tasks[i].response.kind = "none" =>
                     imp.score = 50 /\ imp.explanation = EXPL_PARSE_ERROR
               /\ tasks[i].response.kind = "text" =>
                     /\ labelled = {} => imp.score = 50
                     /\ \A pq \in labelled :
                          (\A other \in labelled : pq[1] <= other[1]) =>
                             \E e \in DOMAIN s :
                                /\ DigitRun(s, pq[2], e)
                                /\ LET n == IntOf(SubSeq(s, pq[2], e))
                                   IN imp.score = IF n > 100 THEN 100 ELSE n
                     /\ (\A m \in DOMAIN s : s[m] # "EXPL:") => imp.explanation = EXPL_NONE

\* a response with the score label but no digits and no explanation label,
\* and the item came back with 50 and the placeholder
C19_Witness ==
    /\ pc = "analyzed"
    /\ tasks[1].response = Text(<<"SCORE:", " ", "a">>)
    /\ analyzed_content[1].importance_score = 50
    /\ analyzed_content[1].explanation = EXPL_NONE

(***************************************************************************)
(* SpecDigest: scored items arrive, then the digest is assembled.          *)
(***************************************************************************)
\* a scored item; title stands for the item's identity (its arrival index)
Scored(i, score) ==
    [id |-> i, title |-> i, source_name |-> "src", importance_score |-> score]

DInit ==
    /\ pc = "analyzed"
    /\ parsed_content = <<>>
    /\ tasks = <<>>
    /\ col = NoCollector
    /\ app = RunningApp
    /\ now = 0
    /\ db_content = <<>>
    /\ db_digests = <<>>
    /\ collect_tasks = <<>>
    /\ raw_content = <<>>
    /\ run = NoRun
    /\ dedup_log = <<>>
    /\ offered = 0
    /\ analyzed_content = <<>>
    /\ top_content = <<>>
    /\ digest = NoDigest
    /\ finished = <<>>
    /\ jobs = NoJobs

\* one more scored item, any score: among the first MaxFree arrivals, and
\* again once the list is longer than a digest can show
DArrive ==
    /\ ~digest.assembled
    /\ \/ Len(analyzed_content) < MaxFree
       \/ Len(analyzed_content) >= TOP_N + OTHER_CAP
    /\ Len(analyzed_content) < MaxScored
    /\ \E s \in ScoreValues :
         analyzed_content' = Append(analyzed_content, Scored(Len(analyzed_content) + 1, s))
    /\ UNCHANGED <<pc, parsed_content, tasks, top_content, digest>>
    /\ UNCHANGED envVars

\* one more scored item with the score of the previous one
DArriveSame ==
    /\ ~digest.assembled
    /\ Len(analyzed_content) >= 1
    /\ Len(analyzed_content) < MaxScored
    /\ analyzed_content' =
         Append(analyzed_content,
                Scored(Len(analyzed_content) + 1,
                       analyzed_content[Len(analyzed_content)].importance_score))
    /\ UNCHANGED <<pc, parsed_content, tasks, top_content, digest>>
    /\ UNCHANGED envVars

\* digest_service.py:82-86 on a non-empty list
DAssemble ==
    /\ ~digest.assembled
    /\ analyzed_content # <<>>
    /\ top_content' = TopContent(analyzed_content)
    /\ digest' = GenerateDigest(analyzed_content)
    /\ UNCHANGED <<pc, parsed_content, tasks, analyzed_content>>
    /\ UNCHANGED envVars

DNext == DArrive \/ DArriveSame \/ DAssemble

SpecDigest == DInit /\ [][DNext]_vars

(***************************************************************************)
(* Claims about the ranker / digest assembler (checked under SpecDigest)   *)
(***************************************************************************)
TitlesOf(s) == {s[i].title : i \in DOMAIN s}
ScoreOfTitle(t) ==
    (CHOOSE x \in {analyzed_content[i] : i \in DOMAIN analyzed_content} : x.title = t).importance_score
NoRepeats(s) == \A i, j \in DOMAIN s : i # j => s[i].title # s[j].title
\* items of the list that are not among the digest's top items
OutsideTop ==
    {analyzed_content[i] : i \in DOMAIN analyzed_content} \ 
        {x \in {analyzed_content[i] : i \in DOMAIN analyzed_content} :
            x.title \in TitlesOf(digest.top_items)}
EligibleOther == {x \in OutsideTop : x.importance_score >= 30}

\* C5: an assembled digest has exactly min(5, number of scored items) top
\* items; they are distinct items of the scored list, shown with their own
\* scores, and no item left outside has a strictly higher score than a top item.
C5_TopItems ==
    digest.assembled =>
        /\ Len(digest.top_items) = Min(5, Len(analyzed_content))
        /\ NoRepeats(digest.top_items)
        /\ \A i \in DOMAIN digest.top_items :
              /\ digest.top_items[i].title \in TitlesOf(analyzed_content)
              /\ digest.top_items[i].importance_score = ScoreOfTitle(digest.top_items[i].title)
        /\ \A x \in OutsideTop : \A i \in DOMAIN digest.top_items :
              x.importance_score <= digest.top_items[i].importance_score

\* more than five items, and the first arrival did not make the top five
C5_Witness ==
    /\ digest.assembled
    /\ Len(analyzed_content) > 5
    /\ analyzed_content[1] \in OutsideTop
    /\ \E i \in DOMAIN digest.top_items :
          digest.top_items[i].importance_score > analyzed_content[1].importance_score

\* C6: other_items holds only items ranked after the top five whose score is
\* >= 30, at most 15 of them, in descending score order; when more than 15 are
\* eligible the 15 highest-ranked are the ones kept.
C6_OtherItems ==
    digest.assembled =>
        /\ Len(digest.other_items) = Min(15, Cardinality(EligibleOther))
        /\ NoRepeats(digest.other_items)
        /\ \A i \in DOMAIN digest.other_items :
              /\ digest.other_items[i].importance_score >= 30
              /\ digest.other_items[i].title \in TitlesOf(analyzed_content)
              /\ digest.other_items[i].title \notin TitlesOf(digest.top_items)
              /\ digest.other_items[i].importance_score = ScoreOfTitle(digest.other_items[i].title)
        /\ \A i, j \in DOMAIN digest.other_items :
              i < j => digest.other_items[i].importance_score >= digest.other_items[j].importance_score
        /\ \A x \in EligibleOther : \A i \in DOMAIN digest.other_items :
              x.title \notin TitlesOf(digest.other_items) =>
                 \/ digest.other_items[i].importance_score > x.importance_score
                 \/ /\ digest.other_items[i].importance_score = x.importance_score
                    /\ digest.other_items[i].title < x.title

\* the cap cuts an eligible item off and the threshold removes another one
C6_Witness ==
    /\ digest.assembled
    /\ Len(digest.other_items) = 15
    /\ \E x \in EligibleOther : x.title \notin TitlesOf(digest.other_items)
    /\ \E x \in OutsideTop : x.importance_score < 30
    /\ \E i, j \in DOMAIN digest.other_items :
          digest.other_items[i].importance_score > digest.other_items[j].importance_score

\* the ranked output: the top items followed by the other items
Ranked == digest.top_items \o digest.other_items

\* C7: ranking is stable and total. Items with equal score appear in arrival
\* order (title = arrival index), an equal-scored item that was cut off arrived
\* after the ones kept, and the two rankings of the run (the top content used
\* for insights and the digest's top items) list the same items in the same order.
C7_StableRanking ==
    digest.assembled =>
        /\ \A i, j \in DOMAIN Ranked :
              (i < j /\ Ranked[i].importance_score = Ranked[j].importance_score)
                 => Ranked[i].title < Ranked[j].title
        /\ \A x \in OutsideTop : \A i \in DOMAIN digest.top_items :
              x.importance_score = digest.top_items[i].importance_score
                 => digest.top_items[i].title < x.title
        /\ [i \in DOMAIN top_content |-> top_content[i].title]
              = [i \in DOMAIN digest.top_items |-> digest.top_items[i].title]

\* two equal-scored items are ranked next to a higher one that arrived later
C7_Witness ==
    /\ digest.assembled
    /\ \E i, j \in DOMAIN digest.top_items :
          /\ i < j
          /\ digest.top_items[i].importance_score = digest.top_items[j].importance_score
          /\ digest.top_items[1].title > digest.top_items[j].title
          /\ digest.top_items[1].importance_score > digest.top_items[j].importance_score

(***************************************************************************)
(* Claims about the collectors (checked under SpecCollect)                 *)
(***************************************************************************)
HandlerFailures == {"transport", "parse"}

\* C4 as stated: collect() never propagates an exception, and any failure
\* inside the call makes it return an empty list.
C4_Original ==
    col.pc = "returned" =>
        /\ ~col.raises
        /\ col.failed # {} => col.result = <<>>

\* C4 as amended: collect() never propagates an exception; a failure that
\* reaches the handler of collect(), or a failed video-list request, makes it
\* return an empty list, while a failed summary request only drops its video
\* and collect() returns the items it kept.
C4_CollectNeverPropagates ==
    col.pc = "returned" =>
        /\ ~col.raises
        /\ col.failed \cap (HandlerFailures \cup {"videos"}) # {} => col.result = <<>>
        /\ col.failed \cap HandlerFailures = {} => col.result = col.items

\* a call that had kept an item when a later entry failed, and returned []
C4_Witness ==
    /\ col.pc = "returned"
    /\ "parse" \in col.failed
    /\ col.items # <<>>
    /\ col.result = <<>>
    /\ ~col.raises

(***************************************************************************)
(* Claims about generate_daily_digest (checked under Spec)                 *)
(***************************************************************************)
ItemsOfSource(items, source_id) == SelectSeq(items, LAMBDA r : r.source_id = source_id)

\* C2: when the collector of a source raises, _collect_from_all_sources still
\* returns exactly the items of every other source, each source's items in
\* the order its collector returned them, and no task's result is an exception.
C2_PartialFailureIsolation ==
    run.collected =>
        /\ \A k \in DOMAIN collect_tasks :
             /\ ~collect_tasks[k].exception
             /\ ItemsOfSource(raw_content, collect_tasks[k].source_id) =
                    IF collect_tasks[k].raised THEN <<>> ELSE collect_tasks[k].offer
        /\ \A i \in DOMAIN raw_content :
             \E k \in DOMAIN collect_tasks :
                 raw_content[i].source_id = collect_tasks[k].source_id

\* one collector raised, the two others returned an item each, both are there
C2_Witness ==
    /\ run.collected
    /\ \E k \in DOMAIN collect_tasks : collect_tasks[k].raised
    /\ Cardinality({k \in DOMAIN collect_tasks : collect_tasks[k].offer # <<>>}) = 2
    /\ Len(raw_content) = 2

SameFingerprint(a, b) == a.source_id = b.source_id /\ a.title = b.title
\* published within the 24 hours before time t
InWindow(e, t) == e.published_at >= t - DEDUP_WINDOW_HOURS

\* C3: of two occurrences of one (source_id, title) that are both published
\* within the 24 hours before the later one is checked, at most one passes
\* _parse_and_filter_content, in one run or across runs; an occurrence is
\* filtered exactly when an earlier one of its fingerprint passed (and so is
\* persisted) with a publication time inside that window.
C3_AtMostOnePasses ==
    /\ \A i, j \in DOMAIN dedup_log :
         (/\ i < j
          /\ SameFingerprint(dedup_log[i], dedup_log[j])
          /\ InWindow(dedup_log[i], dedup_log[j].checked_at)
          /\ InWindow(dedup_log[j], dedup_log[j].checked_at))
         => ~(dedup_log[i].passed /\ dedup_log[j].passed)
    /\ \A j \in DOMAIN dedup_log :
         dedup_log[j].passed <=>
             ~\E i \in 1..(j - 1) :
                 /\ SameFingerprint(dedup_log[i], dedup_log[j])
                 /\ dedup_log[i].passed
                 /\ InWindow(dedup_log[i], dedup_log[j].checked_at)

\* an occurrence passed in one run, and a later run filtered the same
\* fingerprint because the row was still inside the window
C3_Witness ==
    \E i, j \in DOMAIN dedup_log :
        /\ i < j
        /\ SameFingerprint(dedup_log[i], dedup_log[j])
        /\ dedup_log[i].checked_at < dedup_log[j].checked_at
        /\ InWindow(dedup_log[i], dedup_log[j].checked_at)
        /\ dedup_log[i].passed
        /\ ~dedup_log[j].passed

ProviderCallRaised(i) == tasks[i].imp_raised \/ tasks[i].cat_raised

\* C8 as stated: an item whose processing raised is absent from the result
\* of analyze_batch.
C8_Original ==
    pc = "analyzed" =>
        \A i \in DOMAIN tasks :
            ProviderCallRaised(i) =>
                \A j \in DOMAIN analyzed_content :
                    analyzed_content[j].id # parsed_content[i].id

\* C8 as amended: analyze_batch leaves out only results that are exceptions,
\* and analyze_content returns an item whatever raises while it is processed;
\* so the result holds every input item, in input order, an item whose
\* importance request raised with score 50 and one whose categorization
\* request raised with category OTHER.
C8_BatchKeepsEveryItem ==
    pc = "analyzed" =>
        /\ Len(analyzed_content) = Len(parsed_content)
        /\ \A i \in DOMAIN analyzed_content :
             /\ analyzed_content[i].id = parsed_content[i].id
             /\ tasks[i].imp_raised => analyzed_content[i].importance_score = DEFAULT_SCORE
             /\ tasks[i].cat_raised => analyzed_content[i].category = "OTHER"

\* a batch of two in which one item's provider calls raised and the other's
\* did not
C8_Witness ==
    /\ pc = "analyzed"
    /\ Len(parsed_content) = 2
    /\ \E i, j \in DOMAIN tasks :
         /\ tasks[i].imp_raised /\ tasks[i].cat_raised
         /\ ~ProviderCallRaised(j)
    /\ Len(analyzed_content) = 2

\* C10: when collection returns no items, or deduplication leaves none, the
\* run has returned the fixed empty-digest text and generate_digest has not
\* been called in it.
C10_EmptyDigest ==
    (\/ run.collected /\ raw_content = <<>>
     \/ run.filtered /\ parsed_content = <<>>)
    => /\ pc = "done"
       /\ run.result = EMPTY_DIGEST
       /\ run.digest_calls = 0
       /\ digest = NoDigest

\* a run whose collected items were all filtered as duplicates
C10_Witness ==
    /\ run.filtered
    /\ raw_content # <<>>
    /\ parsed_content = <<>>
    /\ run.result = EMPTY_DIGEST
    /\ run.digest_calls = 0

\* no occurrence of e's fingerprint passed in an earlier run with a
\* publication time inside the window of e's check
NotPersistedBefore(e) ==
    ~\E k \in DOMAIN dedup_log :
        /\ dedup_log[k].run < e.run
        /\ SameFingerprint(dedup_log[k], e)
        /\ dedup_log[k].passed
        /\ InWindow(dedup_log[k], e.checked_at)

\* i and j are two occurrences of one fingerprint in one batch, i the first
\* of the batch
FirstAndLaterInBatch(i, j) ==
    /\ i < j
    /\ dedup_log[i].run = dedup_log[j].run
    /\ SameFingerprint(dedup_log[i], dedup_log[j])
    /\ \A k \in 1..(i - 1) :
         dedup_log[k].run = dedup_log[i].run => ~SameFingerprint(dedup_log[k], dedup_log[i])

\* C20 as stated: two items of one batch that share a fingerprint which was
\* not persisted before the batch both pass deduplication.
C20_Original ==
    \A i, j \in DOMAIN dedup_log :
        FirstAndLaterInBatch(i, j) /\ NotPersistedBefore(dedup_log[i])
        => dedup_log[i].passed /\ dedup_log[j].passed

\* C20 as amended: deduplication looks up persisted rows only, but every item
\* that passes is persisted before the next item of the batch is checked; so
\* of two items of one batch with a fingerprint not persisted before, the
\* first passes and the later one is filtered whenever the first's
\* publication time lies in the 24 hours before the check.
C20_IntraBatchFiltered ==
    \A i, j \in DOMAIN dedup_log :
        FirstAndLaterInBatch(i, j) /\ NotPersistedBefore(dedup_log[i])
        => /\ dedup_log[i].passed
           /\ InWindow(dedup_log[i], dedup_log[j].checked_at) => ~dedup_log[j].passed
           /\ \E k \in DOMAIN db_content :
                /\ db_content[k].source_id = dedup_log[i].source_id
                /\ db_content[k].title = dedup_log[i].title
                /\ db_content[k].published_at = dedup_log[i].published_at

\* the first batch ever held the same title twice from one source: one row
\* was persisted, one item went on
C20_Witness ==
    /\ run.filtered
    /\ Len(raw_content) = 2
    /\ raw_content[1] = raw_content[2]
    /\ Len(dedup_log) = 2
    /\ dedup_log[1].passed /\ ~dedup_log[2].passed
    /\ Len(parsed_content) = 1
    /\ Len(db_content) = 1

\* the scored item of the run a digest item was built from
ScoredItemOf(d) ==
    CHOOSE k \in DOMAIN analyzed_content :
        /\ analyzed_content[k].source_name = d.source
        /\ analyzed_content[k].title = d.title

RankedItems == digest.top_items \o digest.other_items

\* C15 as stated: the digest is ranked by (importance_score descending,
\* published_at descending): of two items with equal score the more recently
\* published one comes first.
C15_Original ==
    digest.assembled =>
        \A i, j \in DOMAIN RankedItems :
            i < j =>
               /\ RankedItems[i].importance_score >= RankedItems[j].importance_score
               /\ RankedItems[i].importance_score = RankedItems[j].importance_score =>
                     analyzed_content[ScoredItemOf(RankedItems[i])].published_at >=
                     analyzed_content[ScoredItemOf(RankedItems[j])].published_at

\* C15 as amended: the digest is ranked by importance_score descending only;
\* of two items with equal score the one that comes first in the list of
\* scored items is ranked first, whatever their publication times.
C15_TiesInArrivalOrder ==
    digest.assembled =>
        \A i, j \in DOMAIN RankedItems :
            i < j =>
               /\ RankedItems[i].importance_score >= RankedItems[j].importance_score
               /\ RankedItems[i].importance_score = RankedItems[j].importance_score =>
                     ScoredItemOf(RankedItems[i]) < ScoredItemOf(RankedItems[j])

\* two items with equal score, the older one scored first and ranked first
C15_Witness ==
    /\ digest.assembled
    /\ Len(digest.top_items) = 2
    /\ digest.top_items[1].importance_score = digest.top_items[2].importance_score
    /\ analyzed_content[ScoredItemOf(digest.top_items[1])].published_at <
       analyzed_content[ScoredItemOf(digest.top_items[2])].published_at
    /\ ScoredItemOf(digest.top_items[1]) < ScoredItemOf(digest.top_items[2])

(***************************************************************************)
(* Claims about generate_insights (checked under SpecInsights)             *)
(***************************************************************************)
AfterSpaces(s) == SubSeq(s, SkipSpaces(s, 1), Len(s))
DashMarked(l) == l # <<>> /\ l[1] = "-"
\* the line starts with one of the numbers 1 to 3 and a dot
NumberMarked(l) == Len(l) >= 2 /\ l[1] = "1" /\ l[2] = "."
\* the line starts with any number and a dot; d is the number's last digit
AnyNumberMarkedAt(l, d) ==
    /\ d >= 1 /\ d < Len(l)
    /\ \A m \in 1..d : IsDigit(l[m])
    /\ l[d + 1] = "."
AnyNumberMarked(l) == \E d \in DOMAIN l : AnyNumberMarkedAt(l, d)

AfterDash(l) == IF DashMarked(l) THEN AfterSpaces(Tail(l)) ELSE l
AfterNumber(l) ==
    LET d == CHOOSE d \in DOMAIN l : AnyNumberMarkedAt(l, d)
    IN AfterDash(AfterSpaces(SubSeq(l, d + 2, Len(l))))

\* the non-empty texts of the lines that satisfy Marked, markers removed
ListEntries(lines, Marked(_)) ==
    LET text == [k \in DOMAIN lines |->
                    LET l == Strip(lines[k])
                    IN IF ~Marked(l) THEN <<>>
                       ELSE IF AnyNumberMarked(l) THEN AfterNumber(l) ELSE AfterDash(l)]
    IN SelectSeq(text, LAMBDA c : c # <<>>)

IsNumberedOrBulleted(l) == AnyNumberMarked(l) \/ DashMarked(l)
IsOneToThreeOrDash(l) == NumberMarked(l) \/ DashMarked(l)

FallbackOnly ==
    /\ run.fault = "none"
    /\ top_content = <<>> => run.insights = <<INSIGHT_EMPTY>>
    /\ top_content # <<>> /\ run.insights_response.kind # "text" =>
          run.insights = <<INSIGHT_ERROR>>

\* C14 as stated: generate_insights returns at most 3 strings, the first
\* three non-empty numbered or bulleted lines of the answer with their
\* markers removed, and exactly one fallback sentence for empty input or a
\* failed provider call.
C14_Original ==
    pc = "insights_done" =>
        /\ Len(run.insights) <= 3
        /\ FallbackOnly
        /\ top_content # <<>> /\ run.insights_response.kind = "text" =>
              LET entries == ListEntries(run.insights_response.text, IsNumberedOrBulleted)
              IN entries # <<>> => run.insights = SubSeq(entries, 1, Min(3, Len(entries)))

\* C14 as amended: generate_insights returns between 1 and 3 strings: the
\* first three of the lines that start with "1.", "2.", "3." or "-" and are
\* not empty once the markers are removed; one fallback sentence when the
\* answer has no such line, one for empty input, one for a failed call.
C14_FirstThreeInsights ==
    pc = "insights_done" =>
        /\ Len(run.insights) >= 1 /\ Len(run.insights) <= 3
        /\ FallbackOnly
        /\ top_content # <<>> /\ run.insights_response.kind = "text" =>
              LET entries == ListEntries(run.insights_response.text, IsOneToThreeOrDash)
              IN run.insights = IF entries = <<>> THEN <<INSIGHT_NONE>>
                                ELSE SubSeq(entries, 1, Min(3, Len(entries)))

\* an answer of four list lines, of which the first three were returned
C14_Witness ==
    /\ pc = "insights_done"
    /\ run.insights_response =
          Text(<<(<<"1", ".", "a">>), (<<"-", "0">>), (<<"1", ".", "a">>), (<<"-", " ", "a">>)>>)
    /\ run.insights = <<(<<"a">>), (<<"0">>), (<<"a">>)>>

(***************************************************************************)
(* Claims about the failures of a run (under Spec and SpecFaults)          *)
(***************************************************************************)
\* the steps after which an exception is a failure of the database or of
\* the digest file, not of a collector or of the provider
StorageSteps == PersistenceCalls \cup {"save_to_file"}

\* C11: a run in which no database call and no file write failed has ended
\* without an exception at the handler of generate_daily_digest, and it
\* returned a text (the digest or the empty digest), whatever the collectors
\* and the provider calls for importance, category and insights did.
C11_ProviderFailuresAbsorbed ==
    (pc = "done" /\ run.n > 0 /\ run.fault \notin StorageSteps) =>
        /\ run.fault = "none"
        /\ run.result \in {EMPTY_DIGEST, TELEGRAM_TEXT}

\* a collector raised, an importance call and a categorization call raised,
\* the insights call raised, and the run returned the digest text
C11_Witness ==
    /\ pc = "done"
    /\ run.result = TELEGRAM_TEXT
    /\ \E k \in DOMAIN collect_tasks : collect_tasks[k].raised
    /\ \E i \in DOMAIN tasks : tasks[i].imp_raised
    /\ \E i \in DOMAIN tasks : tasks[i].cat_raised
    /\ run.insights_response = Raise
    /\ run.insights = <<INSIGHT_ERROR>>

\* C17 as stated: a run in which one database call failed has still
\* returned its digest.
C17_Original ==
    (pc = "done" /\ run.fault \in PersistenceCalls) =>
        run.result \in {EMPTY_DIGEST, TELEGRAM_TEXT}

RECURSIVE IsSubsequence(_, _)
\* s can be obtained from t by leaving elements out
IsSubsequence(s, t) ==
    IF s = <<>> THEN TRUE
    ELSE IF t = <<>> THEN FALSE
    ELSE IF Head(s) = Head(t) THEN IsSubsequence(Tail(s), Tail(t))
    ELSE IsSubsequence(s, Tail(t))

\* the scored items of the run as digest items, in ranking order
RankedScored == DigestItems(SortedByScoreDesc(analyzed_content))

\* C16 as stated: when a run that scored items has ended, each scored item
\* is in exactly one terminal state: the digest is assembled, its top items
\* are the head of the ranking and its other items are picked, in order, from
\* the rest, so that what is in neither list is excluded.
C16_Original ==
    /\ (pc = "done" /\ analyzed_content # <<>>) => digest.assembled
    /\ digest.assembled =>
          /\ digest.top_items = Take(RankedScored, Len(digest.top_items))
          /\ IsSubsequence(digest.other_items, Drop(RankedScored, Len(digest.top_items)))

(***************************************************************************)
(* Claim about the fan-out of the gather calls (checked under SpecFanOut)  *)
(***************************************************************************)
\* C12 as stated: at no time are more than CONCURRENT_SOURCES collector
\* calls, or more than CONCURRENT_SOURCES provider calls, outstanding.
C12_Original ==
    /\ Cardinality(OutstandingCollects) <= CONCURRENT_SOURCES
    /\ Cardinality(OutstandingProviderCalls) <= CONCURRENT_SOURCES

(***************************************************************************)
(* Claim about the start of the application (checked under SpecStartup)    *)
(***************************************************************************)
\* the key of the provider the settings select
ProviderKey(config) ==
    IF config.AI_PROVIDER = "openai" THEN config.OPENAI_API_KEY
    ELSE IF config.AI_PROVIDER = "anthropic" THEN config.ANTHROPIC_API_KEY
    ELSE TRUE

UnsupportedProvider(config) == config.AI_PROVIDER \notin {"openai", "anthropic"}

\* the bot token, the allowed users or the selected provider's key has no
\* value, or the Telegram reader is set up without its phone number
RequiredSettingMissing(config) ==
    \/ ~config.TELEGRAM_BOT_TOKEN
    \/ ~config.ALLOWED_USER_IDS
    \/ ~ProviderKey(config)
    \/ config.TELEGRAM_API_ID /\ config.TELEGRAM_API_HASH /\ ~config.TELEGRAM_PHONE

\* C18: with a required setting missing or an unsupported provider, the
\* application never gets as far as starting the bot or the scheduler, and no
\* generate_daily_digest call is ever started.
C18_ConfigErrorFatal ==
    (RequiredSettingMissing(app.config) \/ UnsupportedProvider(app.config)) =>
        /\ app.pc \in {"start", "checked", "exited"}
        /\ run.n = 0
        /\ pc = "idle"

\* complete settings with an unknown provider: _check_config passed, the
\* construction of the components ended the application
C18_Witness ==
    /\ app.pc = "exited"
    /\ UnsupportedProvider(app.config)
    /\ ~RequiredSettingMissing(app.config)
    /\ run.n = 0

(***************************************************************************)
(* Claims about the order of the writes of a run (checked under Spec)      *)
(***************************************************************************)
\* the content row with the id, if it has been saved
HasRow(id) == \E k \in DOMAIN db_content : db_content[k].id = id
RowOfId(id) == db_content[CHOOSE k \in DOMAIN db_content : db_content[k].id = id]

\* C21: while the items of a run are being scored, and until their scores
\* are written, every item that went into scoring has its row saved and the
\* row has no score yet, also for an item whose scoring has finished; once
\* the digest of the run is saved, the row of every scored item that has an
\* id carries the item's score.
C21_IncrementalCommits ==
    /\ pc \in {"analyze", "analyzed"} =>
          \A i \in DOMAIN parsed_content :
              /\ parsed_content[i].id # 0
              /\ HasRow(parsed_content[i].id)
              /\ RowOfId(parsed_content[i].id).title = parsed_content[i].title
              /\ RowOfId(parsed_content[i].id).importance_score = NULL_SCORE
    /\ (digest.assembled /\ digest.id # 0) =>
          /\ Len(db_digests) = digest.id
          /\ \A i \in DOMAIN analyzed_content :
                analyzed_content[i].id # 0 =>
                    /\ HasRow(analyzed_content[i].id)
                    /\ RowOfId(analyzed_content[i].id).importance_score
                          = analyzed_content[i].importance_score

\* the scoring of one item has finished while another is still being
\* scored, and neither row has a score yet
C21_Witness ==
    /\ pc = "analyze"
    /\ Len(tasks) = 2
    /\ tasks[1].pc = "done" /\ tasks[2].pc # "done"
    /\ tasks[1].result[1].importance_score = SCORE_MAX
    /\ RowOfId(parsed_content[1].id).importance_score = NULL_SCORE

\* C22 as stated: after its assembly no field of the digest other than
\* sent_at differs from what generate_digest returned.
C22_Original ==
    digest.assembled =>
        [digest EXCEPT !.sent_at = "None"] = GenerateDigest(analyzed_content)

\* C22: a run assembles at most one digest, and the digest of a run differs
\* from what generate_digest returned in its id only, which is the id of
\* the row save_digest inserted for it; sent_at stays unset.
C22_DigestFixedButId ==
    /\ run.digest_calls <= 1
    /\ ~digest.assembled => digest = NoDigest
    /\ digest.assembled =>
          /\ run.digest_calls = 1
          /\ [digest EXCEPT !.id = 0] = GenerateDigest(analyzed_content)
          /\ digest.sent_at = "None"
          /\ digest.id # 0 =>
                /\ digest.id = Len(db_digests)
                /\ db_digests[digest.id] = [digest EXCEPT !.id = 0]

\* the digest of the second run, saved as the second row
C22_Witness ==
    /\ digest.assembled
    /\ run.n = 2
    /\ digest.id = 2
    /\ Len(digest.top_items) > 0

(***************************************************************************)
(* Claims about what the collectors keep (checked under SpecCollect)       *)
(***************************************************************************)
\* the k-th entry of the feed was visited by the loop and kept
KeptEntry(k) == \E i \in DOMAIN col.items : col.items[i].title = k

\* C23 as stated: every item collect() returns, of any collector variant,
\* was published within the last MAX_CONTENT_AGE_HOURS hours.
C23_Original ==
    col.pc = "returned" =>
        \A i \in DOMAIN col.result : col.result[i].age <= MAX_CONTENT_AGE_HOURS

\* C24 as stated: of the entries inside the age window that the loop of
\* collect() has visited, it has kept exactly those whose trimmed body is not
\* shorter than the minimum of the collector's kind; a body of exactly the
\* minimum length is kept.
C24_Original ==
    col.failed = {} =>
        \A k \in 1..(col.next - 1) :
            col.feed[k].age <= MAX_CONTENT_AGE_HOURS =>
                (KeptEntry(k) <=> col.feed[k].size >= MinLenOf(col.kind))

(***************************************************************************)
(* Claims about the sections of the digest (checked under SpecDigest)      *)
(***************************************************************************)
ScoredItems == {analyzed_content[i] : i \in DOMAIN analyzed_content}

\* y is ranked before x: a higher score, or the same score and an earlier arrival
RankedBefore(y, x) ==
    \/ y.importance_score > x.importance_score
    \/ y.importance_score = x.importance_score /\ y.title < x.title

RankOf(x) == 1 + Cardinality({y \in ScoredItems : RankedBefore(y, x)})

\* C29: the five highest-ranked items are top items whatever their score,
\* also below 30; an item is in neither section exactly when it is ranked
\* after the fifth and either scores below 30 or is beyond the fifteenth of
\* the remaining items that reach 30.
C29_NoThresholdOnTop ==
    digest.assembled =>
        LET rank == [x \in ScoredItems |-> RankOf(x)]
            \* the items ranked after the fifth that reach the threshold
            eligible == {x \in ScoredItems : rank[x] > 5 /\ x.importance_score >= 30}
            eligibleRank == [x \in eligible |->
                                1 + Cardinality({y \in eligible : RankedBefore(y, x)})]
            top == TitlesOf(digest.top_items)
            shown == TitlesOf(Ranked)
        IN \A x \in ScoredItems :
              /\ rank[x] <= 5 <=> x.title \in top
              /\ x.title \notin shown <=>
                     /\ rank[x] > 5
                     /\ \/ x.importance_score < 30
                        \/ eligibleRank[x] > 15

\* a top item scores below 30 while an item with the same score, ranked
\* after the fifth, is in neither section
C29_Witness ==
    /\ digest.assembled
    /\ \E i \in DOMAIN digest.top_items :
          /\ digest.top_items[i].importance_score < 30
          /\ \E x \in ScoredItems :
                /\ x.title \notin TitlesOf(Ranked)
                /\ x.importance_score = digest.top_items[i].importance_score

(***************************************************************************)
(* Claims about the batch of a run (checked under Spec)                    *)
(***************************************************************************)
\* C25: every finished analyze_content task has returned one item and no
\* exception; the list analyze_batch returns is as long as its input, its
\* i-th element is the scored form of the i-th input item (same id, title,
\* source and publication time) with a score in 0..100 and a category of the
\* enumeration, the default 50 standing in for a score whose provider call
\* raised and OTHER for a category whose provider call raised.
C25_OneResultPerItem ==
    /\ pc = "analyze" =>
          /\ Len(tasks) = Len(parsed_content)
          /\ \A i \in DOMAIN tasks :
                tasks[i].pc = "done" =>
                    /\ ~tasks[i].raises
                    /\ Len(tasks[i].result) = 1
                    /\ tasks[i].result[1].id = parsed_content[i].id
    /\ pc = "analyzed" =>
          /\ DOMAIN analyzed_content = DOMAIN parsed_content
          /\ \A i \in DOMAIN parsed_content :
                /\ analyzed_content[i].id = parsed_content[i].id
                /\ analyzed_content[i].title = parsed_content[i].title
                /\ analyzed_content[i].source_id = parsed_content[i].source_id
                /\ analyzed_content[i].published_at = parsed_content[i].published_at
                /\ analyzed_content[i].importance_score \in 0..SCORE_MAX
                /\ analyzed_content[i].category \in Categories
                /\ analyzed_content[i].importance_score =
                      (IF tasks[i].response.kind = "raise" THEN DEFAULT_SCORE ELSE SCORE_MAX)
                /\ analyzed_content[i].category =
                      (IF tasks[i].cat_response.kind = "raise" THEN "OTHER" ELSE "TRENDS")

\* a batch of two different items: the first got its values, the second's
\* importance request raised, and both are in the result in input order
C25_Witness ==
    /\ pc = "analyzed"
    /\ Len(parsed_content) = 2
    /\ parsed_content[1].id # parsed_content[2].id
    /\ tasks[1].response.kind = "text" /\ tasks[1].cat_response.kind = "text"
    /\ tasks[2].response.kind = "raise"
    /\ analyzed_content[1].importance_score = SCORE_MAX
    /\ analyzed_content[2].importance_score = DEFAULT_SCORE

(***************************************************************************)
(* Claims about the deduplication window (checked under Spec)              *)
(***************************************************************************)
\* number of checks before the j-th that passed: the rows of the content
\* table at the time of the j-th check are the first PassedBefore(j) rows
PassedBefore(j) == Cardinality({i \in 1..(j - 1) : dedup_log[i].passed})

\* C28: the content table holds one row per check that passed, in the order
\* of the checks, and a check drops its item exactly when one of the rows
\* persisted before it has the item's title and source_id and a publication
\* time not more than 24 hours before the time of the check; when the row
\* was saved plays no part.
C28_WindowOnPublicationTime ==
    /\ Len(db_content) = PassedBefore(Len(dedup_log) + 1)
    /\ \A j \in DOMAIN dedup_log :
          /\ dedup_log[j].passed =>
                /\ db_content[PassedBefore(j) + 1].title = dedup_log[j].title
                /\ db_content[PassedBefore(j) + 1].source_id = dedup_log[j].source_id
                /\ db_content[PassedBefore(j) + 1].published_at = dedup_log[j].published_at
          /\ ~dedup_log[j].passed <=>
                \E k \in 1..PassedBefore(j) :
                    /\ db_content[k].title = dedup_log[j].title
                    /\ db_content[k].source_id = dedup_log[j].source_id
                    /\ db_content[k].published_at
                          >= dedup_log[j].checked_at - DEDUP_WINDOW_HOURS

\* an item published 20 hours before its run was saved; 12 hours later, with
\* the row saved less than 24 hours ago but published more than 24 hours
\* ago, an item of the same title and source passes again
C28_Witness ==
    \E i, j \in DOMAIN dedup_log :
        /\ i < j
        /\ SameFingerprint(dedup_log[i], dedup_log[j])
        /\ dedup_log[i].passed /\ dedup_log[j].passed
        /\ dedup_log[j].checked_at - dedup_log[i].checked_at < DEDUP_WINDOW_HOURS
        /\ dedup_log[i].published_at < dedup_log[j].checked_at - DEDUP_WINDOW_HOURS
        /\ Len(db_content) = 2

(***************************************************************************)
(* Claims about promotional items (checked under Spec)                     *)
(***************************************************************************)
\* the checks of the current run that passed
PassedChecksOfRun == SelectSeq(dedup_log, LAMBDA e : e.run = run.n /\ e.passed)

\* C30: the promotional flag removes nothing.  Once a run has filtered its
\* items, every item whose duplicate check passed, promotional or not, is a
\* parsed item with a saved row, and the flag of the item and of its row is
\* the result of check_for_ad_content; each parsed item gets a scoring task,
\* its scored form carries the score its provider response gives, and with
\* at most five items every one of them is a top item of the digest.
C30_AdFlagOnlyRecorded ==
    run.filtered =>
        /\ Len(parsed_content) = Len(PassedChecksOfRun)
        /\ \A i \in DOMAIN parsed_content :
              /\ parsed_content[i].title = PassedChecksOfRun[i].title
              /\ parsed_content[i].source_id = PassedChecksOfRun[i].source_id
              /\ parsed_content[i].is_ad = (parsed_content[i].title \in AdTitles)
              /\ HasRow(parsed_content[i].id)
              /\ RowOfId(parsed_content[i].id).is_ad = parsed_content[i].is_ad
        /\ Len(tasks) = Len(parsed_content)
        /\ pc \in {"analyzed", "done"} =>
              \A i \in DOMAIN parsed_content :
                  /\ analyzed_content[i].title = parsed_content[i].title
                  /\ analyzed_content[i].importance_score =
                        (IF tasks[i].imp_raised THEN DEFAULT_SCORE ELSE SCORE_MAX)
        /\ (digest.assembled /\ Len(parsed_content) <= TOP_N) =>
              \A i \in DOMAIN parsed_content :
                  \E k \in DOMAIN digest.top_items :
                      /\ digest.top_items[k].title = parsed_content[i].title
                      /\ digest.top_items[k].importance_score
                            = analyzed_content[i].importance_score

\* a promotional item and another item of one run: both saved, the row of the
\* promotional one flagged, and the promotional one ranked first in the digest
C30_Witness ==
    /\ digest.assembled
    /\ Len(parsed_content) = 2
    /\ \E i, j \in DOMAIN parsed_content :
          /\ parsed_content[i].is_ad /\ ~parsed_content[j].is_ad
          /\ RowOfId(parsed_content[i].id).is_ad
          /\ ~RowOfId(parsed_content[j].id).is_ad
          /\ digest.top_items[1].title = parsed_content[i].title
          /\ digest.top_items[1].importance_score > digest.top_items[2].importance_score

(***************************************************************************)
(* Claims about the order tasks finish in (checked under SpecOrder)        *)
(***************************************************************************)
RECURSIVE OffersFrom(_)
\* what the collectors handed over, from the k-th task on, in task order
OffersFrom(k) ==
    IF k > Len(collect_tasks) THEN <<>>
    ELSE (IF collect_tasks[k].raised THEN <<>> ELSE collect_tasks[k].offer) \o OffersFrom(k + 1)

\* the items a run on an empty content table keeps of the collectors' offers
ParsedOfOffers == ParseAndFilterContent(OffersFrom(1), <<>>, now).parsed

\* the i-th of them, scored with the provider's answers to its two requests
ScoredOfResponses ==
    [i \in DOMAIN ParsedOfOffers |->
        AnalyzeContent(ParsedOfOffers[i], AnalyzeImportance(tasks[i].response),
                       CategorizeContent(tasks[i].cat_response)).item]

\* the tasks of the kind, in the order they finished
FinishOrder(task) ==
    LET f == SelectSeq(finished, LAMBDA e : e.task = task)
    IN [i \in DOMAIN f |-> f[i].k]

\* C26: the collected list is the collectors' outputs in task order, and the
\* two sections of the digest, members and order, are those that the
\* collectors' outputs and the provider's answers give when taken in task
\* order, in whatever order the collection tasks and the scoring tasks finished.
C26_OrderIndependent ==
    /\ run.collected => raw_content = OffersFrom(1)
    /\ digest.assembled =>
          /\ digest.top_items = GenerateDigest(ScoredOfResponses).top_items
          /\ digest.other_items = GenerateDigest(ScoredOfResponses).other_items

\* the last source's task finished first and the second item was scored
\* before the first; both items, of different sources, have the same score
\* and stand in the digest in the order of their sources' tasks
C26_Witness ==
    /\ digest.assembled
    /\ FinishOrder("collect")[1] = Len(collect_tasks)
    /\ FinishOrder("score") = <<2, 1>>
    /\ Len(digest.top_items) = 2
    /\ analyzed_content[1].source_id # analyzed_content[2].source_id
    /\ digest.top_items[1].importance_score = digest.top_items[2].importance_score
    /\ digest.top_items[1].title = analyzed_content[1].title
    /\ analyzed_content[2].source_id = collect_tasks[Len(collect_tasks)].source_id

(***************************************************************************)
(* Claims about two runs in one event loop (checked under SpecTwoRuns)     *)
(***************************************************************************)
\* the job is inside the loop of _parse_and_filter_content
InLoop(job) == job.pc \in {"loop", "checked"}

\* C27: while a run is between the duplicate check of an item and its save,
\* the verdict of the check still holds and the other run is not inside its
\* loop; and of two checks of one (source_id, title), made by the two runs
\* with the earlier item published inside the window of the later check, at
\* most one passed, so the content table never holds two rows of one
\* fingerprint.
C27_CheckAndSaveAtomic ==
    /\ \A j \in JobNames :
          jobs[j].pc = "checked" =>
              /\ ~CheckDuplicate(db_content, jobs[j].raw[jobs[j].next].title,
                                 jobs[j].raw[jobs[j].next].source_id, now)
              /\ \A o \in JobNames \ {j} : ~InLoop(jobs[o])
    /\ \A i, k \in DOMAIN dedup_log :
          (/\ i < k
           /\ dedup_log[i].run # dedup_log[k].run
           /\ SameFingerprint(dedup_log[i], dedup_log[k])
           /\ InWindow(dedup_log[i], dedup_log[k].checked_at))
          => ~(dedup_log[i].passed /\ dedup_log[k].passed)
    /\ \A a, b \in DOMAIN db_content :
          (a # b /\ db_content[a].title = db_content[b].title)
              => db_content[a].source_id # db_content[b].source_id

\* the manual run saved a post and is suspended in its scoring when the
\* scheduled run, which collected the same post, is about to save another
\* item, having dropped the post as a duplicate
C27_Witness ==
    /\ jobs["manual"].pc = "scoring"
    /\ jobs["scheduled"].pc = "checked"
    /\ \E i, k \in DOMAIN dedup_log :
          /\ i < k
          /\ dedup_log[i].run = 1 /\ dedup_log[k].run = 2
          /\ SameFingerprint(dedup_log[i], dedup_log[k])
          /\ dedup_log[i].passed /\ ~dedup_log[k].passed

=============================================================================
